---- MODULE Spec2Model ----
(***************************************************************************)
(* Model of src/scripts/scrapeandwrite.py: the HTTP helper get(), the      *)
(* sequential identifier allocator gen_id_from(), the link loader          *)
(* load_links(), the API resolver fetch_from_api() with its thumbnail loop *)
(* over download_thumbnail(), the batch loop of main(), and the title,     *)
(* date, version, description and thumbnail blocks of the HTML parser      *)
(* parse_civitai_page().                                                   *)
(*                                                                         *)
(* Seven specifications share the module:                                  *)
(*   SpecGet     one call of get() against every sequence of responses;    *)
(*   Spec        one run of main() over a batch of links, the upstream API *)
(*               and the thumbnail host answering nondeterministically;    *)
(*   SpecThumbs  the same run of main() over a single link whose version   *)
(*               holds an image list longer than the thumbnail cap;        *)
(*   SpecExt     one call of download_thumbnail() for every URL extension  *)
(*               and every answer of the thumbnail host;                   *)
(*   SpecLinks   one call of load_links() on every small link file;        *)
(*   SpecFields  the field extraction of fetch_from_api() on version       *)
(*               records with fields present, absent or null.              *)
(*   SpecPage    one call of parse_civitai_page() on every page with a few *)
(*               of the elements and JSON fields its blocks look for.      *)
(***************************************************************************)
EXTENDS Naturals, Sequences, FiniteSets, TLC

VARIABLES
    \* ---- one call of get() ----
    g_pc,        \* "loop" | "after" (loop exhausted) | "returned" | "raised"
    g_n,         \* iterations of `for _ in range(RETRIES)` already run
    g_last_exc,  \* local last_exc: "" models None
    g_log,       \* per attempt: the response received and the sleeps that followed it
    g_ret,       \* the response returned to the caller (NoResp: nothing returned)
    g_err,       \* the exception raised to the caller ("" : none)
    \* ---- one run of main() ----
    pc,            \* position in main()/fetch_from_api()
    linkfile,      \* what load_links(LINKS) will find
    upstream,      \* per link entry: number of images the API holds for its version
    links_list,    \* main: links_list
    i,             \* main: 1-based index of the entry being processed
    out,           \* main: out, the registry map  id -> record
    success_count, \* main: success_count
    fail_count,    \* main: fail_count
    id_counter,    \* module global _id_counter
    version_id,    \* fetch_from_api: version_id (0 models None)
    attempts,      \* fetch_from_api: iterations of the current `for _ in range(3)`
    v,             \* fetch_from_api: the version JSON
    out_id,        \* fetch_from_api: out_id ("" before it is assigned)
    j,             \* fetch_from_api: enumerate index of the thumbnail loop
    thumbs_remote, \* fetch_from_api: thumbs_remote
    thumbs_local,  \* fetch_from_api: thumbs_local
    attempted,     \* download_thumbnail calls of the current fetch_from_api call
    files,         \* names of the files written under THUMB_DIR
    lastReq,       \* fetch_from_api: the last request of the current loop and the sleeps after it
    results,       \* per processed entry: did fetch_from_api return or raise
    regfile,       \* OUTPUT_JSON on disk, and the json.dump calls made on it
    summary,       \* the summary main() printed
    main_ret,      \* what main() handed to its caller, once it returned
    \* ---- one call of a function studied on its own ----
    fn,            \* the function called ("" : none)
    fn_arg,        \* its arguments
    fn_ret         \* what the call produced ([done |-> FALSE] before it ran)

getvars  == <<g_pc, g_n, g_last_exc, g_log, g_ret, g_err>>
mainvars == <<pc, linkfile, upstream, links_list, i, out, success_count, fail_count,
              id_counter, version_id, attempts, v, out_id, j, thumbs_remote,
              thumbs_local, attempted, files, lastReq, results, regfile, summary,
              main_ret>>
purevars == <<fn, fn_arg, fn_ret>>
vars     == <<getvars, mainvars, purevars>>

(***************************************************************************)
(* Program constants.                                                      *)
(***************************************************************************)
RETRIES == 3
TEST_LIMIT == 0
API_TRIES == 3
THUMB_CAP == 5

(***************************************************************************)
(* Bounds of the model.                                                    *)
(***************************************************************************)
MaxEntries == 2
MaxBatchImages == 1
MaxImages == 6
MaxKeys == 2
MaxSizeSteps == 40
MaxParts == 3
MaxPageParts == 3

(***************************************************************************)
(* What requests.get can produce: an HTTP response with a status code, or  *)
(* an exception (exc # "").  requests.Timeout is caught by its own handler *)
(* in get(); every other exception by `except Exception`.                  *)
(***************************************************************************)
Http(code) == [exc |-> "", status |-> code]
Exc(name)  == [exc |-> name, status |-> 0]
NoResp     == [exc |-> "", status |-> 0]

StatusCodes == {200, 429, 500, 404}
NetErrors   == {"ConnectionError", "SSLError"}
Responses   == {Http(c) : c \in StatusCodes} \cup {Exc("Timeout")}
                  \cup {Exc(e) : e \in NetErrors}

IsOk(resp) == resp.exc = "" /\ resp.status = 200

(***************************************************************************)
(* get(): the sleeps that follow one attempt.  "cooldown" is               *)
(* time.sleep(30), "backoff" is rand_sleep().                              *)
(***************************************************************************)
GetPausesAfter_NoCooldown(resp) ==
    IF IsOk(resp) THEN <<>> ELSE <<"backoff">>

GetPausesAfter_Exclusive(resp) ==
    IF IsOk(resp) THEN <<>>
    ELSE IF resp.exc = "" /\ resp.status = 429 THEN <<"cooldown">>
    ELSE <<"backoff">>

GetPausesAfter(resp) ==
    IF resp.exc = "Timeout" THEN <<"backoff">>
    ELSE IF resp.exc # "" THEN <<"backoff">>
    ELSE IF resp.status = 200 THEN <<>>
    ELSE IF resp.status = 429 THEN <<"cooldown", "backoff">>
    ELSE <<"backoff">>

(* get(): last_exc after one attempt; only `except Exception as e` assigns it. *)
GetLastExc(last_exc, resp) ==
    IF resp.exc # "" /\ resp.exc # "Timeout" THEN resp.exc ELSE last_exc

(* get(): what the two statements after the loop raise. *)
GetRaise(last_exc) ==
    IF last_exc # "" THEN last_exc ELSE "RuntimeError"

(* get(): does the loop run another iteration after n iterations without a return *)
GetLoopContinues_FourTries(n) == n < RETRIES + 1

GetLoopContinues(n) == n < RETRIES

(* One iteration of the for loop of get(), lines 59-76. *)
GetAttempt ==
    /\ g_pc = "loop"
    /\ \E resp \in Responses :
         /\ g_n' = g_n + 1
         /\ g_log' = Append(g_log, [resp |-> resp, pauses |-> GetPausesAfter(resp)])
         /\ IF IsOk(resp)
            THEN /\ g_ret' = resp
                 /\ g_pc' = "returned"
                 /\ UNCHANGED g_last_exc
            ELSE /\ g_last_exc' = GetLastExc(g_last_exc, resp)
                 /\ g_pc' = IF GetLoopContinues(g_n + 1) THEN "loop" ELSE "after"
                 /\ UNCHANGED g_ret
         /\ UNCHANGED g_err
    /\ UNCHANGED mainvars
    /\ UNCHANGED purevars

(* Lines 77-79: the loop ended without a return. *)
GetExhausted ==
    /\ g_pc = "after"
    /\ g_err' = GetRaise(g_last_exc)
    /\ g_pc' = "raised"
    /\ UNCHANGED <<g_n, g_last_exc, g_log, g_ret>>
    /\ UNCHANGED mainvars
    /\ UNCHANGED purevars

GetInit ==
    /\ g_pc = "loop"
    /\ g_n = 0
    /\ g_last_exc = ""
    /\ g_log = <<>>
    /\ g_ret = NoResp
    /\ g_err = ""


GetNext == GetAttempt \/ GetExhausted

(***************************************************************************)
(* gen_id_from(): the counter is incremented, then formatted as            *)
(* f"A{_id_counter:04d}" (at least four digits, zero padded).              *)
(***************************************************************************)
FormatId(n) ==
    "A" \o (IF n < 10 THEN "000" ELSE IF n < 100 THEN "00"
            ELSE IF n < 1000 THEN "0" ELSE "") \o ToString(n)

GenIdFrom_NoIncrement(counter) ==
    [counter |-> IF counter = 0 THEN 1 ELSE counter,
     id |-> FormatId(IF counter = 0 THEN 1 ELSE counter)]

GenIdFrom(counter) == [counter |-> counter + 1, id |-> FormatId(counter + 1)]

(***************************************************************************)
(* Strings of the link file.  A string is kept as what the code reads off  *)
(* it: its text without surrounding whitespace, whether it carries         *)
(* surrounding whitespace (pad), startswith("#") (hash), "http" in it      *)
(* (http), the last segment of urlparse(.).path (seg), and the numbers the *)
(* regular expressions of fetch_from_api extract from it (0: no match).    *)
(***************************************************************************)
Str(text, hash, http, seg, model, ver) ==
    [text |-> text, pad |-> FALSE, hash |-> hash, http |-> http, seg |-> seg,
     model |-> model, ver |-> ver]

Padded(str) == [str EXCEPT !.pad = TRUE]

(* str.strip() *)
Strip(str) == [str EXCEPT !.pad = FALSE]

UrlNoModel == Str("https://civitai.com", FALSE, TRUE, "", 0, 0)
UrlModel   == Str("https://civitai.com/models/7", FALSE, TRUE, "7", 7, 0)
UrlVersion == Str("https://civitai.com/models/7?modelVersionId=9", FALSE, TRUE, "7", 7, 9)
Comment    == Str("# later", TRUE, FALSE, "", 0, 0)
Junk       == Str("todo", FALSE, FALSE, "todo", 0, 0)
Blank      == Str("", FALSE, FALSE, "", 0, 0)

Urls == { UrlNoModel, UrlModel, UrlVersion }
LatestVersionId == 11

SeqsUpTo(S, n) == UNION { [1..k -> S] : k \in 0..n }

Min(a, b) == IF a < b THEN a ELSE b

RECURSIVE Flatten(_)
Flatten(ss) == IF ss = <<>> THEN <<>> ELSE Head(ss) \o Flatten(Tail(ss))

(***************************************************************************)
(* load_links()                                                            *)
(***************************************************************************)
(* A value of the JSON object: a string, given as the parts value.split(",")*)
(* yields (no part: the empty string), a list, given as str(v) of its      *)
(* elements, null, or a number.                                            *)
StrValue(parts)  == [type |-> "str", parts |-> parts]
ListValue(parts) == [type |-> "list", parts |-> parts]
NullValue        == [type |-> "null", parts |-> <<>>]
NumberValue      == [type |-> "number", parts |-> <<>>]

(* Line 182: `if not value`. *)
Falsy(value) ==
    \/ value.type = "null"
    \/ value.type \in {"str", "list"} /\ value.parts = <<>>

(* Line 180: model_name.strip(), on the keys that occur here. *)
StripKey(key) == IF key = " " THEN "" ELSE key

NonBlank(str) == str.text # ""

(* Lines 186-191: urls. *)
ValueUrls(value) ==
    IF value.type \in {"str", "list"}
    THEN SelectSeq([k \in DOMAIN value.parts |-> Strip(value.parts[k])], NonBlank)
    ELSE <<>>

(* Lines 182-194: is the value passed over. *)
NotALink(str) == str.hash \/ ~str.http

ValueSkipped(value) ==
    \/ Falsy(value)
    \/ ValueUrls(value) = <<>>
    \/ \A k \in DOMAIN ValueUrls(value) : NotALink(ValueUrls(value)[k])

(* An entry of a blank key keeps the blank key as its name. *)
EntryName_KeepsKey(model_name, url) == model_name

(* Lines 197-204: the name of an entry. *)
EntryName(model_name, url) ==
    IF model_name = ""
    THEN (IF url.seg # "" THEN url.seg ELSE "unnamed")
    ELSE model_name

(* Only the first URL of a value is emitted. *)
PairEntries_FirstOnly(pair) ==
    IF ValueSkipped(pair.value) THEN <<>>
    ELSE <<[name |-> EntryName(StripKey(pair.key), ValueUrls(pair.value)[1]),
            url  |-> ValueUrls(pair.value)[1]]>>

(* Lines 179-204: the entries one key of the object contributes. *)
PairEntries(pair) ==
    IF ValueSkipped(pair.value) THEN <<>>
    ELSE [k \in DOMAIN ValueUrls(pair.value) |->
            [name |-> EntryName(StripKey(pair.key), ValueUrls(pair.value)[k]),
             url  |-> ValueUrls(pair.value)[k]]]

(* Lines 178-206, data being the items of the object in file order. *)
LoadLinks(data) == Flatten([k \in DOMAIN data |-> PairEntries(data[k])])

LoadFailures == {"missing", "invalid_json", "not_object"}

(* Lines 165-177: the file is missing (FileNotFoundError), is not JSON     *)
(* (RuntimeError), or holds a JSON value without .items() (AttributeError).*)
LoadError(status) ==
    CASE status = "missing"      -> "FileNotFoundError"
      [] status = "invalid_json" -> "RuntimeError"
      [] status = "not_object"   -> "AttributeError"
      [] OTHER                   -> ""

LoadLinksFile(file) ==
    IF file.status # "ok"
    THEN [raised |-> LoadError(file.status), pairs |-> <<>>]
    ELSE [raised |-> "", pairs |-> LoadLinks(file.data)]

(* One call load_links(file_path) on its own, on a link file with up to    *)
(* MaxKeys keys and up to MaxParts strings in all, or on one that cannot   *)
(* be loaded.                                                              *)
LinkStrings == { UrlNoModel, Padded(UrlVersion), Comment, Junk, Padded(Blank) }
LinkKeys    == { "", " ", "m1" }

ValuesOfLen(n) ==
    (IF n = 0 THEN { NullValue, NumberValue } ELSE {})
    \cup { StrValue(ps) : ps \in [1..n -> LinkStrings] }
    \cup { ListValue(ps) : ps \in [1..n -> LinkStrings] }

PartsIn(data) == Len(Flatten([k \in DOMAIN data |-> data[k].value.parts]))

(* The link file gains one more key before load_links is called. *)
WriteLinkFile ==
    /\ fn = "load_links"
    /\ ~fn_ret.done
    /\ fn_arg.status = "ok"
    /\ Len(fn_arg.data) < MaxKeys
    /\ \E key \in LinkKeys \ { fn_arg.data[k].key : k \in DOMAIN fn_arg.data },
          n \in 0..(MaxParts - PartsIn(fn_arg.data)) :
         \E val \in ValuesOfLen(n) :
           fn_arg' = [fn_arg EXCEPT !.data = Append(@, [key |-> key, value |-> val])]
    /\ UNCHANGED <<fn, fn_ret>>
    /\ UNCHANGED getvars
    /\ UNCHANGED mainvars

CallLoadLinks ==
    /\ fn = "load_links"
    /\ ~fn_ret.done
    /\ fn_ret' = [done |-> TRUE, val |-> LoadLinksFile(fn_arg)]
    /\ UNCHANGED <<fn, fn_arg>>
    /\ UNCHANGED getvars
    /\ UNCHANGED mainvars

(***************************************************************************)
(* Inputs of a run of main().                                              *)
(***************************************************************************)
(* The link file with one named key per URL, in file order. *)
LinkFileOf(urls) ==
    [status |-> "ok",
     data   |-> [k \in DOMAIN urls |->
                   [key |-> "m" \o ToString(k), value |-> StrValue(<<urls[k]>>)]]]

(* The link file and, for each of its entries, the length of the image    *)
(* list of the version the API holds for it.                               *)
WorldsOf(lens, imax) ==
    { <<LinkFileOf(w[1]), w[2]>> :
        w \in { c \in SeqsUpTo(Urls, MaxEntries + 1)
                        \X SeqsUpTo(0..imax, MaxEntries + 1) :
                   /\ Len(c[1]) \in lens
                   /\ Len(c[1]) = Len(c[2]) } }

(* Link files of one link with a value that is neither a string nor a     *)
(* list under another key, before or after the link.                      *)
MalformedPair == [key |-> "bad", value |-> NumberValue]

MalformedWorlds ==
    UNION { { <<[status |-> "ok", data |-> <<MalformedPair>> \o w[1].data], w[2]>>,
              <<[status |-> "ok", data |-> w[1].data \o <<MalformedPair>>], w[2]>> } :
            w \in WorldsOf({1}, MaxBatchImages) }

(* Batches of up to MaxEntries entries with short image lists, the link   *)
(* files that cannot be loaded, and those with a malformed value.         *)
BatchWorlds ==
    WorldsOf(0..MaxEntries, MaxBatchImages)
    \cup { <<[status |-> f, data |-> <<>>], <<>>>> : f \in LoadFailures }
    \cup MalformedWorlds

(* Batches of one entry with image lists longer than the thumbnail cap.   *)
ThumbWorlds == WorldsOf({1}, MaxImages)

(* Answers of the API endpoints and of the thumbnail host. *)
ApiResponses   == { Http(200), Http(429), Http(500), Exc("Timeout"), Exc("ConnectionError") }
ModelBodies    == { "versions", "no_versions" }
VersionBodies  == { "ok", "empty", "field_null", "type_null" }
ImageElems     == { "url", "badurl", "nourl", "notdict" }
ThumbResponses == { [exc |-> "", status |-> 200, ctype |-> "image/jpeg", stream_ok |-> TRUE],
                    [exc |-> "", status |-> 200, ctype |-> "image/jpeg", stream_ok |-> FALSE],
                    [exc |-> "", status |-> 404, ctype |-> "", stream_ok |-> TRUE],
                    [exc |-> "Timeout", status |-> 0, ctype |-> "", stream_ok |-> TRUE] }

(* The URL of an image; its path has no extension. *)
ImgUrl(entry, pos) == "https://img/" \o ToString(entry) \o "/" \o ToString(pos)

EmptyMap == [k \in {} |-> 0]
Put(d, k, val) == [q \in DOMAIN d \cup {k} |-> IF q = k THEN val ELSE d[q]]
Range(s) == { s[k] : k \in DOMAIN s }

NoReq == [site |-> "none", target |-> "", attempt |-> 0, resp |-> NoResp, pauses |-> <<>>]
NoFile == [written |-> FALSE, data |-> EmptyMap, dumps |-> 0]
NoSummary == [printed |-> FALSE, success |-> 0, failed |-> 0, entries |-> 0]

(***************************************************************************)
(* download_thumbnail()                                                    *)
(***************************************************************************)
(* str.lower() of lines 124, 134 and 822, on the strings that occur here. *)
Lower(str) ==
    CASE str = ".PNG" -> ".png"
      [] str = "Image/JPEG" -> "image/jpeg"
      [] str = "LORA" -> "lora"
      [] OTHER -> str

(* Lines 135 and 138: the content types that contain "image", and those    *)
(* that contain "video", among the content types that occur here.          *)
ImageTypes == { "image/jpeg", "image/png", "image/webp", "image/gif" }
VideoTypes == { "video/mp4", "video/webm" }
OtherTypes == { "", "text/html", "application/octet-stream" }
ContentTypes == ImageTypes \cup VideoTypes \cup OtherTypes \cup { "Image/JPEG" }

(* Extensions os.path.splitext finds in the path of a thumbnail URL. *)
UrlExts == { "", ".jpg", ".jpeg", ".png", ".webp", ".mp4", ".webm", ".gif", ".bin", ".PNG" }

(* The content type alone decides. *)
ThumbExt_TypeOnly(urlext, ctype) ==
    IF ctype \in ImageTypes THEN ".jpg"
    ELSE IF ctype \in VideoTypes THEN ".mp4"
    ELSE ".dat"

(* A known image extension of the URL wins over the content type. *)
ThumbExt_UrlFirst(urlext, ctype) ==
    IF urlext \in {".jpg", ".jpeg", ".png", ".webp"} THEN urlext
    ELSE IF ctype \in ImageTypes THEN ".jpg"
    ELSE IF ctype \in VideoTypes THEN ".mp4"
    ELSE ".dat"

(* Lines 135-142: the extension of the saved file, from the lower-cased    *)
(* URL extension and the lower-cased content type.                         *)
ThumbExt(urlext, ctype) ==
    IF ctype \in ImageTypes
    THEN (IF urlext = "" \/ urlext \notin {".jpg", ".jpeg", ".png", ".webp"}
          THEN ".jpg" ELSE urlext)
    ELSE IF ctype \in VideoTypes
    THEN (IF urlext = "" \/ urlext \notin {".mp4", ".webm"} THEN ".mp4" ELSE urlext)
    ELSE IF urlext = "" THEN ".dat" ELSE urlext

ThumbPath(id, ext) == "thumbnails/" \o id \o ext

(* Lines 121 and 124, which run before the try of line 126: the exception *)
(* that leaves download_thumbnail.  ensure_dir raises OSError when         *)
(* THUMB_DIR cannot be created; urlparse raises ValueError for a URL with  *)
(* an unclosed bracket in its host.                                        *)
BeforeTry(dir_ok, bad_url) ==
    IF ~dir_ok THEN "OSError" ELSE IF bad_url THEN "ValueError" ELSE ""

(* Lines 119-156: the exception raised (pre, from lines 121-124, "" for   *)
(* none) or the pair returned, and the file created ("" for none), for    *)
(* one answer of the single requests.get of line 127.                     *)
DownloadThumbnail(thumbnail_url, id, urlext, resp, pre) ==
    IF thumbnail_url = ""
    THEN [raised |-> "", remote |-> "", local |-> "", file |-> ""]
    ELSE IF pre # ""
    THEN [raised |-> pre, remote |-> "", local |-> "", file |-> ""]
    ELSE IF resp.exc # ""
    THEN [raised |-> "", remote |-> thumbnail_url, local |-> "", file |-> ""]
    ELSE IF resp.status # 200
    THEN [raised |-> "", remote |-> thumbnail_url, local |-> "", file |-> ""]
    ELSE LET local_path == ThumbPath(id, ThumbExt(Lower(urlext), Lower(resp.ctype))) IN
         IF resp.stream_ok
         THEN [raised |-> "", remote |-> thumbnail_url, local |-> local_path,
               file |-> local_path]
         ELSE [raised |-> "", remote |-> thumbnail_url, local |-> "", file |-> local_path]

(* One call download_thumbnail(thumbnail_url, out_id) on its own.  The    *)
(* URL urlparse rejects has an unclosed bracket in its host.              *)
ThumbCallUrl(urlext) == "https://img/pic" \o urlext
ThumbCallId == "A0001_T1"
ThumbCallResponses ==
    { [exc |-> "", status |-> 200, ctype |-> c, stream_ok |-> b] :
        c \in ContentTypes, b \in BOOLEAN }
    \cup { [exc |-> "", status |-> 404, ctype |-> "text/html", stream_ok |-> TRUE],
           [exc |-> "Timeout", status |-> 0, ctype |-> "", stream_ok |-> TRUE] }

CallDownloadThumbnail ==
    /\ fn = "download_thumbnail"
    /\ ~fn_ret.done
    /\ LET got == DownloadThumbnail(IF ~fn_arg.has_url THEN ""
                                    ELSE IF fn_arg.bad_url
                                    THEN "http://[" \o ThumbCallUrl(fn_arg.urlext)
                                    ELSE ThumbCallUrl(fn_arg.urlext),
                                    ThumbCallId, fn_arg.urlext, fn_arg.resp,
                                    BeforeTry(fn_arg.dir_ok, fn_arg.bad_url))
       IN
       /\ fn_ret' = [done |-> TRUE, val |-> got]
       /\ files' = IF got.file # "" THEN files \cup {got.file} ELSE files
    /\ UNCHANGED <<fn, fn_arg>>
    /\ UNCHANGED getvars
    /\ UNCHANGED <<pc, linkfile, upstream, links_list, i, out, success_count, fail_count,
                   id_counter, version_id, attempts, v, out_id, j, thumbs_remote,
                   thumbs_local, attempted, lastReq, results, regfile, summary, main_ret>>

(***************************************************************************)
(* fetch_from_api()                                                        *)
(***************************************************************************)
(* A field of the version JSON: absent, null, or a value. *)
Absent       == [t |-> "absent"]
Null         == [t |-> "null"]
JStr(str)    == [t |-> "str", s |-> str]
JNum(num)    == [t |-> "num", n |-> num]
JList(items) == [t |-> "list", items |-> items]
JObj(keys)   == [t |-> "obj", keys |-> keys]

(* dict.get(key, default): the default stands in for an absent key only. *)
Get(field, default) == IF field.t = "absent" THEN default ELSE field

(* The fields of the version JSON that lines 772-786 read. *)
OkVersion ==
    [type          |-> JStr("LORA"),
     baseModel     |-> JStr("SDXL 1.0"),
     baseModelType |-> JStr("Standard"),
     trainedWords  |-> JList(<<"foo", "bar">>),
     sizeKB        |-> JNum(2048),
     hashes        |-> JObj({"SHA256"}),
     description   |-> JStr("<p>text</p>"),
     createdAt     |-> JStr("2024-05-01T10:00:00.000Z")]

(* The version JSON behind each answer of the version endpoint. *)
VersionJson(body) ==
    CASE body = "field_null" -> [OkVersion EXCEPT !.createdAt = Null]
      [] body = "type_null"  -> [OkVersion EXCEPT !.type = Null]
      [] OTHER               -> OkVersion

(* Line 775: ", ".join(words) *)
RECURSIVE JoinWords(_)
JoinWords(words) ==
    IF words = <<>> THEN ""
    ELSE IF Len(words) = 1 THEN words[1]
    ELSE words[1] \o ", " \o JoinWords(Tail(words))

(* Line 786: .split("T")[0], on the strings that occur here. *)
DateOf(str) == IF str = "2024-05-01T10:00:00.000Z" THEN "2024-05-01" ELSE str

(* round(num/den, 2) in hundredths, num/den being exact in binary floating *)
(* point (den a power of two): nearest, ties to even.                      *)
Hundredths(num, den) ==
    LET q == (num \div den) * 100 + ((num % den) * 100) \div den
        r == ((num % den) * 100) % den
    IN IF 2 * r > den \/ (2 * r = den /\ q % 2 = 1) THEN q + 1 ELSE q

(* str() of the float h/100, as an f-string prints it. *)
FloatText(h) ==
    ToString(h \div 100) \o "." \o
    (IF h % 10 = 0 THEN ToString((h % 100) \div 10)
     ELSE IF h % 100 < 10 THEN "0" \o ToString(h % 100)
     ELSE ToString(h % 100))

(* The number is printed as an integer. *)
SizeString_Integer(size_kb) ==
    IF size_kb >= 1024 * 1024 THEN ToString(size_kb \div (1024 * 1024)) \o " GB"
    ELSE IF size_kb >= 1024 THEN ToString(size_kb \div 1024) \o " MB"
    ELSE IF size_kb # 0 THEN ToString(size_kb) \o " KB"
    ELSE ""

(* Lines 777-781, for a whole number of KB. *)
SizeString(size_kb) ==
    IF size_kb >= 1024 * 1024 THEN FloatText(Hundredths(size_kb, 1024 * 1024)) \o " GB"
    ELSE IF size_kb >= 1024 THEN FloatText(Hundredths(size_kb, 1024)) \o " MB"
    ELSE IF size_kb # 0 THEN ToString(size_kb) \o " KB"
    ELSE ""

(* Lines 772-786: the locals read off the version JSON, or the exception   *)
(* the first null operand raises.                                          *)
ExtractFields(ver) ==
    LET words == Get(ver.trainedWords, JList(<<>>))
        kb    == Get(ver.sizeKB, JNum(0))
        date  == Get(ver.createdAt, JStr(""))
    IN
    IF words.t = "null" THEN [raised |-> "TypeError"]
    ELSE IF kb.t = "null" THEN [raised |-> "TypeError"]
    ELSE IF date.t = "null" THEN [raised |-> "AttributeError"]
    ELSE [raised          |-> "",
          model_type      |-> Get(ver.type, JStr("")),
          base_model      |-> Get(ver.baseModel, JStr("")),
          base_model_type |-> Get(ver.baseModelType, JStr("")),
          trained_words   |-> JoinWords(words.items),
          size            |-> SizeString(kb.n),
          hashes          |-> Get(ver.hashes, JObj({})),
          description     |-> Get(ver.description, JStr("")),
          created_at      |-> DateOf(date.s)]

(* Line 822: model_type.lower() raises on None. *)
ReturnRaises(fields) == fields.model_type.t = "null"

(* Line 803: thumb_id = f"{out_id}_T{j}" *)
ThumbId(id, pos) == id \o "_T" \o ToString(pos)

(* Line 799: images[:5] *)
ThumbLimit_NoCap(nimages) == nimages

ThumbLimit(nimages) == Min(nimages, THUMB_CAP)

(* Lines 743/746 and 759/762: the sleep after an attempt that did not break. *)
ApiPausesAfter(resp, broke) == IF broke THEN <<>> ELSE <<"fixed1">>

(* Lines 722-731 and 750: where fetch_from_api goes first.  A URL without *)
(* /models/<digits> is sent to the model endpoint like any other.         *)
EntryStart_NoIdCheck(url) ==
    IF url.ver = 0 THEN "model_api" ELSE "version_api"

(* Lines 722-731 and 750: fetch_from_api raises for a URL without a model *)
(* id, asks the model endpoint when the URL names no version, and else    *)
(* goes straight to the version endpoint.                                 *)
EntryStart(url) ==
    IF url.model = 0 THEN "raise"
    ELSE IF url.ver = 0 THEN "model_api" ELSE "version_api"

(* Lines 732 and 751: the endpoints requested. *)
ModelApi(model_id)     == "https://civitai.com/api/v1/models/" \o ToString(model_id)
VersionApi(version_id_) ==
    "https://civitai.com/api/v1/model-versions/" \o ToString(version_id_)

(* Line 739: the ids of model_json.get("modelVersions", []), in the order *)
(* the API lists them.                                                    *)
ModelVersions(body) ==
    IF body = "versions" THEN <<LatestVersionId, LatestVersionId - 1>> ELSE <<>>

(* The oldest version of the list is taken. *)
FirstVersionId_Last(versions) == versions[Len(versions)]

(* Line 741: versions[0]["id"]. *)
FirstVersionId(versions) == versions[1]

Locals == <<version_id, attempts, v, out_id, j, thumbs_remote, thumbs_local, attempted>>

ResetLocals ==
    /\ version_id' = 0
    /\ attempts' = 0
    /\ v' = "empty"
    /\ out_id' = ""
    /\ j' = 0
    /\ thumbs_remote' = <<>>
    /\ thumbs_local' = <<>>
    /\ attempted' = <<>>
    /\ lastReq' = NoReq

(***************************************************************************)
(* main()                                                                  *)
(***************************************************************************)
(* What a call hands to its caller: nothing while it runs, then the value *)
(* of its return statement.  Lines 850 and 854 are bare returns and the   *)
(* body of main() ends at line 898 without one: the caller gets None.     *)
NotReturned   == [returned |-> FALSE]
Return(value) == [returned |-> TRUE, value |-> value]
None          == [t |-> "none"]

(* Lines 857-859. *)
ApplyTestLimit(l) ==
    IF TEST_LIMIT # 0 /\ Len(l) > TEST_LIMIT THEN SubSeq(l, 1, TEST_LIMIT) ELSE l

(* The loop stops after its first entry. *)
LoopDone_Early(idx, n) == idx > 1

(* Line 867: the for loop has no entry left. *)
LoopDone(idx, n) == idx > n

(* Lines 873-876: where the loop goes after a failed entry. *)
AfterFailure_Abort(idx, n) == [pc |-> "save", i |-> idx]

AfterFailure(idx, n) == [pc |-> "loop", i |-> idx + 1]

(* Lines 875: the failure counter after a failed entry. *)
CountFailure(fc) == fc + 1

(* fetch_from_api raised: the except block of main(), lines 873-876. *)
EntryFails ==
    /\ fail_count' = CountFailure(fail_count)
    /\ pc' = AfterFailure(i, Len(links_list)).pc
    /\ i' = AfterFailure(i, Len(links_list)).i
    /\ results' = Append(results, [idx |-> i, outcome |-> "raised"])
    /\ ResetLocals
    /\ UNCHANGED <<out, success_count>>

(* A failed load is taken for an empty link list and the run goes on. *)
LoadAborts_Never(loaded) == FALSE

(* Lines 847-855: main() returns when load_links raised or found nothing. *)
LoadAborts(loaded) == loaded.raised # "" \/ loaded.pairs = <<>>

(* Lines 843-865. *)
Load ==
    /\ pc = "load"
    /\ IF LoadAborts(LoadLinksFile(linkfile))
       THEN /\ pc' = "done"
            /\ main_ret' = Return(None)
            /\ UNCHANGED <<links_list, i>>
       ELSE /\ links_list' = ApplyTestLimit(LoadLinksFile(linkfile).pairs)
            /\ i' = 1
            /\ pc' = "loop"
            /\ UNCHANGED main_ret
    /\ UNCHANGED <<linkfile, upstream, out, success_count, fail_count, id_counter,
                   Locals, files, lastReq, results, regfile, summary>>
    /\ UNCHANGED getvars
    /\ UNCHANGED purevars

(* Line 867 with an entry left, and lines 722-731 of fetch_from_api. *)
BeginEntry ==
    /\ pc = "loop"
    /\ ~LoopDone(i, Len(links_list))
    /\ LET url == links_list[i].url IN
       IF EntryStart(url) = "raise"
       THEN EntryFails
       ELSE /\ version_id' = url.ver
            /\ attempts' = 0
            /\ pc' = EntryStart(url)
            /\ UNCHANGED <<i, out, success_count, fail_count, results, v, out_id, j,
                           thumbs_remote, thumbs_local, attempted, lastReq>>
    /\ UNCHANGED <<linkfile, main_ret, upstream, links_list, id_counter, files, regfile, summary>>
    /\ UNCHANGED getvars
    /\ UNCHANGED purevars

(* One iteration of the loop of lines 733-746, and lines 747-748 after the last. *)
ModelApiAttempt ==
    /\ pc = "model_api"
    /\ \E resp \in ApiResponses, body \in ModelBodies :
         LET versions == IF IsOk(resp) THEN ModelVersions(body) ELSE <<>> IN
         LET broke == IsOk(resp) /\ versions # <<>> IN
         LET req == [site |-> "model", target |-> ModelApi(links_list[i].url.model),
                     attempt |-> attempts + 1, resp |-> resp, versions |-> versions,
                     pauses |-> ApiPausesAfter(resp, broke)] IN
         /\ IF broke
            THEN /\ version_id' = FirstVersionId(versions)
                 /\ lastReq' = req
                 /\ attempts' = 0
                 /\ pc' = "version_api"
                 /\ UNCHANGED <<i, out, success_count, fail_count, results, v, out_id, j,
                                thumbs_remote, thumbs_local, attempted>>
            ELSE IF attempts + 1 < API_TRIES
            THEN /\ attempts' = attempts + 1
                 /\ lastReq' = req
                 /\ UNCHANGED <<pc, i, out, success_count, fail_count, results, version_id,
                                v, out_id, j, thumbs_remote, thumbs_local, attempted>>
            ELSE EntryFails
    /\ UNCHANGED <<linkfile, main_ret, upstream, links_list, id_counter, files, regfile, summary>>
    /\ UNCHANGED getvars
    /\ UNCHANGED purevars

(* One iteration of the loop of lines 753-762, and lines 763-764 after it. *)
VersionApiAttempt ==
    /\ pc = "version_api"
    /\ \E resp \in ApiResponses, body \in VersionBodies :
         LET req == [site |-> "version", target |-> VersionApi(version_id),
                     attempt |-> attempts + 1, resp |-> resp,
                     pauses |-> ApiPausesAfter(resp, IsOk(resp))] IN
         /\ IF IsOk(resp) /\ body # "empty"
            THEN /\ v' = body
                 /\ lastReq' = req
                 /\ attempts' = 0
                 /\ pc' = "extract"
                 /\ UNCHANGED <<i, out, success_count, fail_count, results, version_id,
                                out_id, j, thumbs_remote, thumbs_local, attempted>>
            ELSE IF ~IsOk(resp) /\ attempts + 1 < API_TRIES
            THEN /\ attempts' = attempts + 1
                 /\ lastReq' = req
                 /\ UNCHANGED <<pc, i, out, success_count, fail_count, results, version_id,
                                v, out_id, j, thumbs_remote, thumbs_local, attempted>>
            ELSE EntryFails
    /\ UNCHANGED <<linkfile, main_ret, upstream, links_list, id_counter, files, regfile, summary>>
    /\ UNCHANGED getvars
    /\ UNCHANGED purevars

(* Lines 767-797: field extraction, then the identifier for the thumbnails. *)
Extract ==
    /\ pc = "extract"
    /\ IF ExtractFields(VersionJson(v)).raised # ""
       THEN EntryFails /\ UNCHANGED id_counter
       ELSE /\ id_counter' = GenIdFrom(id_counter).counter
            /\ out_id' = GenIdFrom(id_counter).id
            /\ j' = 1
            /\ pc' = "thumbs"
            /\ lastReq' = NoReq
            /\ UNCHANGED <<i, out, success_count, fail_count, results, version_id,
                           attempts, v, thumbs_remote, thumbs_local, attempted>>
    /\ UNCHANGED <<linkfile, main_ret, upstream, links_list, files, regfile, summary>>
    /\ UNCHANGED getvars
    /\ UNCHANGED purevars

(* One iteration of the loop of lines 799-811 (download_thumbnail inlined). *)
(* A call that raises (here: urlparse at line 124, on an image URL with an  *)
(* unclosed bracket) is caught at lines 810-811: nothing is appended, and   *)
(* no request was made, so there is no answer to choose.  THUMB_DIR is the  *)
(* directory main() made at line 844, so ensure_dir at line 121 succeeds.   *)
ThumbStep ==
    /\ pc = "thumbs"
    /\ j <= ThumbLimit(upstream[i])
    /\ \E img \in ImageElems :
         CASE img = "notdict" ->
                /\ EntryFails
                /\ UNCHANGED files
           [] img = "nourl" ->
                /\ j' = j + 1
                /\ UNCHANGED <<pc, i, out, success_count, fail_count, results, version_id,
                               attempts, v, out_id, thumbs_remote, thumbs_local, attempted,
                               files, lastReq>>
           [] img \in {"url", "badurl"} ->
                \E resp \in IF img = "url" THEN ThumbResponses
                            ELSE { [exc |-> "", status |-> 0, ctype |-> "",
                                    stream_ok |-> TRUE] } :
                  LET thumb_url == IF img = "badurl" THEN "http://[" \o ImgUrl(i, j)
                                   ELSE ImgUrl(i, j)
                      thumb_id  == ThumbId(out_id, j)
                      got       == DownloadThumbnail(thumb_url, thumb_id, "", resp,
                                                     BeforeTry(TRUE, img = "badurl"))
                  IN
                  /\ attempted' = Append(attempted,
                                     [pos |-> j, id |-> thumb_id, url |-> thumb_url,
                                      local |-> got.local, raised |-> got.raised])
                  /\ lastReq' = IF got.raised # "" THEN lastReq
                                ELSE [site |-> "thumb", target |-> thumb_url, attempt |-> 1,
                                      resp |-> [exc |-> resp.exc, status |-> resp.status],
                                      pauses |-> <<>>]
                  /\ thumbs_remote' = IF got.remote # "" THEN Append(thumbs_remote, got.remote)
                                      ELSE thumbs_remote
                  /\ thumbs_local' = IF got.local # "" THEN Append(thumbs_local, got.local)
                                     ELSE thumbs_local
                  /\ files' = IF got.file # "" THEN files \cup {got.file} ELSE files
                  /\ j' = j + 1
                  /\ UNCHANGED <<pc, i, out, success_count, fail_count, results, version_id,
                                 attempts, v, out_id>>
    /\ UNCHANGED <<linkfile, main_ret, upstream, links_list, id_counter, regfile, summary>>
    /\ UNCHANGED getvars
    /\ UNCHANGED purevars

(* Lines 813-838: the record fetch_from_api returns.  The computed fields  *)
(* are strings; base_model, base_model_type, hashes and description are    *)
(* the JSON values read at lines 773-785.                                  *)
MakeRecord(filename, url, fields, remote, local) ==
    [filename         |-> filename,
     title            |-> "Model - v1",
     type             |-> Lower(fields.model_type.s),
     base_model       |-> fields.base_model,
     base_model_type  |-> fields.base_model_type,
     size             |-> fields.size,
     thumbnail        |-> IF remote # <<>> THEN remote[1] ELSE "",
     thumbnail_local  |-> IF local # <<>> THEN local[1] ELSE "",
     thumbnails_all   |-> remote,
     thumbnails_local |-> local,
     model_link       |-> "https://civitai.com/models/" \o ToString(url.model),
     metadata         |-> [trained_words |-> fields.trained_words,
                           hashes        |-> fields.hashes,
                           description   |-> fields.description,
                           download_link |-> "https://civitai.com/api/download/models/11",
                           published_on  |-> fields.created_at]]

(* The thumbnail loop is over: lines 813-838, then lines 878-884 of main(). *)
ReturnRecord ==
    /\ pc = "thumbs"
    /\ j > ThumbLimit(upstream[i])
    /\ IF ReturnRaises(ExtractFields(VersionJson(v)))
       THEN EntryFails /\ UNCHANGED id_counter
       ELSE LET meta == MakeRecord(links_list[i].name, links_list[i].url,
                                   ExtractFields(VersionJson(v)),
                                   thumbs_remote, thumbs_local)
                key  == GenIdFrom(id_counter)
            IN
            /\ id_counter' = key.counter
            /\ out' = Put(out, key.id, meta)
            /\ success_count' = success_count + 1
            /\ results' = Append(results, [idx |-> i, outcome |-> "returned"])
            /\ i' = i + 1
            /\ pc' = "loop"
            /\ ResetLocals
            /\ UNCHANGED fail_count
    /\ UNCHANGED <<linkfile, main_ret, upstream, links_list, files, regfile, summary>>
    /\ UNCHANGED getvars
    /\ UNCHANGED purevars

(* Lines 766-838 of one call fetch_from_api(filename, url) on their own,   *)
(* for a version JSON without images: the record returned, or the          *)
(* exception raised.                                                       *)
ResolveVersion(ver) ==
    IF ExtractFields(ver).raised # ""
    THEN [raised |-> ExtractFields(ver).raised]
    ELSE IF ReturnRaises(ExtractFields(ver))
    THEN [raised |-> "AttributeError"]
    ELSE [raised |-> "",
          rec    |-> MakeRecord("m1", UrlVersion, ExtractFields(ver), <<>>, <<>>)]

(* Version records with each field present, absent or null, and version    *)
(* records with file sizes in steps up to MaxSizeSteps and around the unit *)
(* boundaries.                                                             *)
FieldStates(value) == { value, Absent, Null }

VersionFieldCases ==
    [type          : FieldStates(OkVersion.type),
     baseModel     : FieldStates(OkVersion.baseModel),
     baseModelType : FieldStates(OkVersion.baseModelType),
     trainedWords  : FieldStates(OkVersion.trainedWords),
     sizeKB        : FieldStates(OkVersion.sizeKB),
     hashes        : FieldStates(OkVersion.hashes),
     description   : FieldStates(OkVersion.description),
     createdAt     : FieldStates(OkVersion.createdAt)]

SizesKB ==
    { k * 128 : k \in 0..MaxSizeSteps }
    \cup { 500, 1023, 1100, 1048575, 1048576, 1100000, 1179648, 3145728 }

VersionSizeCases == { [OkVersion EXCEPT !.sizeKB = JNum(n)] : n \in SizesKB }

(* The call allocates its identifier at line 793 unless lines 767-786     *)
(* raised before.                                                         *)
CallFetchFields ==
    /\ fn = "fetch_from_api"
    /\ ~fn_ret.done
    /\ fn_ret' = [done |-> TRUE, val |-> ResolveVersion(fn_arg)]
    /\ id_counter' = IF ExtractFields(fn_arg).raised = ""
                     THEN GenIdFrom(id_counter).counter
                     ELSE id_counter
    /\ UNCHANGED <<fn, fn_arg>>
    /\ UNCHANGED getvars
    /\ UNCHANGED <<pc, linkfile, upstream, links_list, i, out, success_count, fail_count,
                   Locals, files, lastReq, results, regfile, summary, main_ret>>

(***************************************************************************)
(* parse_civitai_page(): the title, date, version, description and         *)
(* thumbnail blocks.  A page is given by what BeautifulSoup and json.loads *)
(* find in it: for every lookup of these blocks, the first element or the  *)
(* JSON field it yields.  Texts and URLs are the strings themselves; the   *)
(* string functions are given on the strings that occur here.              *)
(***************************************************************************)
NoVideo     == [present |-> FALSE, poster |-> "", srcs |-> <<>>]

OgJpeg      == "https://image.civitai.com/og/card.jpeg"
OgRelative  == "/og/card.PNG"
OgClip      == "https://image.civitai.com/og/clip.mp4"
OgQuery     == "https://image.civitai.com/og/card.jpeg?a=1&amp;b=2"
MediaImg    == "/media/first.jpeg"

(* A text of n characters without markup, and one of n characters with.   *)
RECURSIVE Plain(_)
Plain(n)    == IF n = 0 THEN "" ELSE Plain(n - 1) \o "x"
Html(n)     == "<p>" \o Plain(n - 7) \o "</p>"
PaddedPlain == "  " \o Plain(50) \o " "

(* str.strip() *)
StripText(str) == IF str = PaddedPlain THEN Plain(50) ELSE str

(* Line 482: re.sub(r"\s+", " ", txt).strip() *)
CollapseSpaces(str) == IF str = "SDXL  Beta v1.0" THEN "SDXL Beta v1.0" ELSE str

(* str.split() *)
Words(str) ==
    CASE str = ""                      -> <<>>
      [] str = "v1.0"                  -> <<"v1.0">>
      [] str = "Beta v1.0"             -> <<"Beta", "v1.0">>
      [] str = "SDXL Beta v1.0"        -> <<"SDXL", "Beta", "v1.0">>
      [] str = "Hi-Res SDXL Beta v1.0" -> <<"Hi-Res", "SDXL", "Beta", "v1.0">>

(* Line 489: re.search(r"\bv[\d\.]+|v\d+", title, re.I), "" for no match. *)
TitleVersion(title) ==
    CASE title = "Dream Model v2.1" -> "v2.1"
      [] title = "Other Model V4"   -> "V4"
      [] OTHER                      -> ""

(* Lines 453 and 457: .split("T")[0] *)
DatePortion(str) ==
    CASE str = "2024-05-01T10:00:00.000Z" -> "2024-05-01"
      [] str = "2023-01-02T03:04:05Z"     -> "2023-01-02"
      [] OTHER                            -> str

(* Line 519: "<" in d and ">" in d *)
HtmlLike(str) == str = Html(51)

(* Lines 106-111: join_abs(base, maybe_rel).  The URLs without a scheme   *)
(* are paths from the root: urljoin puts them behind the origin of base.  *)
JoinAbs(base, maybe_rel) ==
    IF maybe_rel = "" THEN ""
    ELSE IF maybe_rel \notin {OgRelative, MediaImg} THEN maybe_rel
    ELSE "https://civitai.com" \o maybe_rel

(* Line 656: .lower().endswith((".jpg", ".jpeg", ".png", ".webp")) *)
EndsWithImageExt(str) == str \in {OgJpeg, "https://civitai.com/og/card.PNG"}

(* Line 675: s.lower().endswith(".mp4") *)
EndsWithMp4(str) == str = "https://image.civitai.com/media/clip.MP4"

(* Lines 686 and 688: .replace("&amp;", "&").strip() *)
Unescape(str) ==
    IF str = OgQuery THEN "https://image.civitai.com/og/card.jpeg?a=1&b=2" ELSE str

(* What the lookups of the blocks find in a page without any of the        *)
(* elements and JSON fields they look for.                                 *)
EmptyPage ==
    [h1                    |-> "",
     og_title              |-> Absent,
     mv_name               |-> Absent,
     button                |-> Absent,
     ld_datePublished      |-> Absent,
     abbr_title            |-> Absent,
     mv_descriptionHtml    |-> Absent,
     mv_description        |-> Absent,
     mv_details            |-> Absent,
     model_descriptionHtml |-> Absent,
     model_description     |-> Absent,
     model_details         |-> Absent,
     ld_descriptionHtml    |-> Absent,
     ld_description        |-> Absent,
     ld_details            |-> Absent,
     spoiler               |-> Absent,
     legacy_description    |-> Absent,
     og_image              |-> Absent,
     media_img             |-> Absent,
     video                 |-> NoVideo,
     ld_image              |-> Absent]

(* Python truth of a string looked up in the page. *)
Truthy(field) == field.t = "str" /\ field.s # ""

(* Lines 377-384. *)
PageTitle(page) ==
    IF page.h1 # "" THEN page.h1
    ELSE IF Truthy(page.og_title) THEN StripText(page.og_title.s)
    ELSE ""

(* Lines 451-457.  A null datePublished has no .split: AttributeError. *)
PagePublishedOn(page) ==
    IF page.ld_datePublished.t # "absent"
    THEN IF page.ld_datePublished.t = "str"
         THEN [raised |-> "", val |-> DatePortion(page.ld_datePublished.s)]
         ELSE [raised |-> "AttributeError", val |-> ""]
    ELSE IF page.abbr_title.t = "str"
         THEN [raised |-> "", val |-> DatePortion(page.abbr_title.s)]
         ELSE [raised |-> "", val |-> ""]

(* Line 485. *)
ButtonVersion(txt) ==
    IF Len(Words(txt)) <= 3 THEN Words(txt)[Len(Words(txt))] ELSE txt

(* Lines 463-495. *)
PageVersion(page, title) ==
    LET txt == IF page.button.t = "str" THEN CollapseSpaces(page.button.s) ELSE "" IN
    IF Truthy(page.mv_name) THEN StripText(page.mv_name.s)
    ELSE IF txt # "" THEN StripText(ButtonVersion(txt))
    ELSE StripText(TitleVersion(title))

(* Lines 506-513: the candidates, in the order of the two loops. *)
DescriptionFields(page) ==
    <<page.mv_descriptionHtml, page.mv_description, page.mv_details,
      page.model_descriptionHtml, page.model_description, page.model_details,
      page.ld_descriptionHtml, page.ld_description, page.ld_details>>

(* Line 512: isinstance(val, str) and len(val.strip()) > 50 *)
IsCandidate(field) == field.t = "str" /\ Len(StripText(field.s)) > 50

DescCandidates(page) ==
    LET found == SelectSeq(DescriptionFields(page), IsCandidate) IN
    [k \in DOMAIN found |-> StripText(found[k].s)]

(* Lines 501-541. *)
PageDescription(page) ==
    LET desc_candidates == DescCandidates(page)
        html_like       == SelectSeq(desc_candidates, HtmlLike)
    IN
    IF desc_candidates # <<>>
    THEN (IF html_like # <<>> THEN html_like[1] ELSE desc_candidates[1])
    ELSE IF page.spoiler.t = "str" THEN StripText(page.spoiler.s)
    ELSE IF page.legacy_description.t = "str" THEN StripText(page.legacy_description.s)
    ELSE ""

(* A non-empty og:image is kept whatever it ends in. *)
KeepsFirstThumbnail_AnyUrl(thumbnail_url) == thumbnail_url # ""

(* Line 656: the thumbnail found so far stands only if it ends like an     *)
(* image file.                                                             *)
KeepsFirstThumbnail(thumbnail_url) ==
    thumbnail_url # "" /\ EndsWithImageExt(thumbnail_url)

(* Lines 647-688: thumbnail_url and video_url. *)
PageThumbnail(base_url, page) ==
    LET og        == IF Truthy(page.og_image)
                     THEN JoinAbs(base_url, StripText(page.og_image.s)) ELSE ""
        container == page.media_img.t = "str" \/ page.video.present
        img       == IF ~KeepsFirstThumbnail(og) /\ container /\ Truthy(page.media_img)
                     THEN JoinAbs(base_url, StripText(page.media_img.s)) ELSE og
        in_video  == ~KeepsFirstThumbnail(og) /\ container /\ img = "" /\ page.video.present
        poster    == IF in_video /\ page.video.poster # ""
                     THEN JoinAbs(base_url, StripText(page.video.poster)) ELSE img
        mp4s      == SelectSeq(page.video.srcs, EndsWithMp4)
        video_url == IF in_video /\ page.video.srcs # <<>>
                     THEN JoinAbs(base_url, IF mp4s # <<>> THEN mp4s[1]
                                            ELSE page.video.srcs[1])
                     ELSE ""
        ld        == IF poster # "" THEN poster
                     ELSE IF page.ld_image.t = "str" THEN JoinAbs(base_url, page.ld_image.s)
                     ELSE IF page.ld_image.t = "list" /\ page.ld_image.items # <<>>
                     THEN JoinAbs(base_url, page.ld_image.items[1])
                     ELSE ""
    IN [thumbnail_url |-> StripText(Unescape(ld)),
        video_url     |-> StripText(Unescape(video_url))]

(* Lines 369-710, the fields of the blocks above. *)
ParseCivitaiPage(base_url, page) ==
    IF PagePublishedOn(page).raised # ""
    THEN [raised |-> PagePublishedOn(page).raised]
    ELSE [raised           |-> "",
          title            |-> PageTitle(page),
          published_on     |-> PagePublishedOn(page).val,
          version          |-> PageVersion(page, PageTitle(page)),
          description_html |-> PageDescription(page),
          thumbnail_url    |-> PageThumbnail(base_url, page).thumbnail_url,
          video_url        |-> PageThumbnail(base_url, page).video_url,
          download_link    |-> StripText(base_url)]

(* One call parse_civitai_page(base_url, html) on its own, on a page with  *)
(* up to MaxPageParts of the elements and JSON fields the blocks look for. *)
DescriptionValues == { JStr(Plain(49)), JStr(Plain(50)), JStr(Plain(51)), JStr(Html(51)),
                       JStr(PaddedPlain) }

PageChoices ==
    [h1                    |-> { "Dream Model v2.1", "Other Model V4", "Plain Model" },
     og_title              |-> { JStr("Dream Model v2.1") },
     mv_name               |-> { JStr("v3.0"), JStr(""), Null },
     button                |-> { JStr("v1.0"), JStr("Beta v1.0"), JStr("SDXL  Beta v1.0"),
                                 JStr("Hi-Res SDXL Beta v1.0"), JStr("") },
     ld_datePublished      |-> { JStr("2024-05-01T10:00:00.000Z"), JStr(""), Null },
     abbr_title            |-> { JStr("2023-01-02T03:04:05Z"), JStr("2023-01-02") },
     mv_descriptionHtml    |-> DescriptionValues,
     mv_description        |-> DescriptionValues,
     mv_details            |-> DescriptionValues,
     model_descriptionHtml |-> DescriptionValues,
     model_description     |-> DescriptionValues,
     model_details         |-> DescriptionValues,
     ld_descriptionHtml    |-> DescriptionValues,
     ld_description        |-> DescriptionValues,
     ld_details            |-> DescriptionValues,
     spoiler               |-> { JStr("<div class=\"mantine-Spoiler-content\">a</div>"),
                                 JStr("<div class=\"RenderHtml_htmlRenderer\">a</div>") },
     legacy_description    |-> { JStr("<div data-testid=\"model-description\">a</div>") },
     og_image              |-> { JStr(OgJpeg), JStr(OgRelative), JStr(OgClip), JStr(OgQuery),
                                 JStr("") },
     media_img             |-> { JStr(MediaImg), JStr("") },
     video                 |->
        { [present |-> TRUE, poster |-> "https://image.civitai.com/media/poster.jpg",
           srcs |-> <<>>],
          [present |-> TRUE, poster |-> "",
           srcs |-> <<"https://image.civitai.com/media/clip.webm",
                      "https://image.civitai.com/media/clip.MP4">>],
          [present |-> TRUE, poster |-> "https://image.civitai.com/media/poster.jpg",
           srcs |-> <<"https://image.civitai.com/media/clip.webm">>] },
     ld_image              |-> { JStr("https://image.civitai.com/ld/cover.png"),
                                 JList(<<"https://image.civitai.com/ld/second.png",
                                         "https://image.civitai.com/ld/cover.png">>),
                                 JList(<<>>) }]

(* The page gains one more element or JSON field before it is parsed. *)
WritePage ==
    /\ fn = "parse_civitai_page"
    /\ ~fn_ret.done
    /\ Cardinality({ f \in DOMAIN EmptyPage : fn_arg.page[f] # EmptyPage[f] }) < MaxPageParts
    /\ \E f \in DOMAIN EmptyPage :
         /\ fn_arg.page[f] = EmptyPage[f]
         /\ \E val \in PageChoices[f] :
              fn_arg' = [fn_arg EXCEPT !.page = [@ EXCEPT ![f] = val]]
    /\ UNCHANGED <<fn, fn_ret>>
    /\ UNCHANGED getvars
    /\ UNCHANGED mainvars

CallParsePage ==
    /\ fn = "parse_civitai_page"
    /\ ~fn_ret.done
    /\ fn_ret' = [done |-> TRUE, val |-> ParseCivitaiPage(fn_arg.base_url, fn_arg.page)]
    /\ UNCHANGED <<fn, fn_arg>>
    /\ UNCHANGED getvars
    /\ UNCHANGED mainvars

(* Line 867: no entry left. *)
EndLoop ==
    /\ pc = "loop"
    /\ LoopDone(i, Len(links_list))
    /\ pc' = "save"
    /\ UNCHANGED <<linkfile, main_ret, upstream, links_list, i, out, success_count, fail_count,
                   id_counter, Locals, files, lastReq, results, regfile, summary>>
    /\ UNCHANGED getvars
    /\ UNCHANGED purevars

(* The except block of lines 892-893 ends the run without a summary. *)
DumpRegistry_Aborts(outcome, reg, data, thumbs) ==
    [regfile |-> CASE outcome = "saved" ->
                        [written |-> TRUE, data |-> data, dumps |-> reg.dumps + 1]
                   [] outcome = "dump_raises" ->
                        [written |-> TRUE, data |-> EmptyMap, dumps |-> reg.dumps + 1]
                   [] outcome = "no_file" -> reg,
     files   |-> thumbs,
     goes_on |-> outcome = "saved"]

(* Lines 887-893: the try block and its except block, which only reports.  *)
(* What is on disk afterwards, and whether main() goes on to line 895.     *)
(* "no_file": ensure_dir or open raises, json.dump is not reached and the  *)
(* file is as it was.  "dump_raises": json.dump raises while writing, and  *)
(* the file open() created stays, holding the part written before the      *)
(* error, which is no JSON document.                                       *)
DumpRegistry(outcome, reg, data, thumbs) ==
    [regfile |-> CASE outcome = "saved" ->
                        [written |-> TRUE, data |-> data, dumps |-> reg.dumps + 1]
                   [] outcome = "dump_raises" ->
                        [written |-> TRUE, data |-> EmptyMap, dumps |-> reg.dumps + 1]
                   [] outcome = "no_file" -> reg,
     files   |-> thumbs,
     goes_on |-> TRUE]

(* Lines 895-898: the summary main() prints. *)
PrintSummary(sc, fc, registry) ==
    [printed |-> TRUE, success |-> sc, failed |-> fc,
     entries |-> Cardinality(DOMAIN registry)]

(* Lines 886-898: the save, which may fail, then the summary. *)
Save ==
    /\ pc = "save"
    /\ \E outcome \in {"saved", "dump_raises", "no_file"} :
         LET dumped == DumpRegistry(outcome, regfile, out, files) IN
         /\ regfile' = dumped.regfile
         /\ files' = dumped.files
         /\ summary' = IF dumped.goes_on
                       THEN PrintSummary(success_count, fail_count, out)
                       ELSE summary
    /\ main_ret' = Return(None)
    /\ pc' = "done"
    /\ UNCHANGED <<linkfile, upstream, links_list, i, out, success_count, fail_count,
                   id_counter, Locals, lastReq, results>>
    /\ UNCHANGED getvars
    /\ UNCHANGED purevars

MainInit(worlds) ==
    /\ pc = "load"
    /\ \E w \in worlds : linkfile = w[1] /\ upstream = w[2]
    /\ links_list = <<>>
    /\ i = 0
    /\ out = EmptyMap
    /\ success_count = 0
    /\ fail_count = 0
    /\ id_counter = 0
    /\ version_id = 0
    /\ attempts = 0
    /\ v = "empty"
    /\ out_id = ""
    /\ j = 0
    /\ thumbs_remote = <<>>
    /\ thumbs_local = <<>>
    /\ attempted = <<>>
    /\ files = {}
    /\ lastReq = NoReq
    /\ results = <<>>
    /\ regfile = NoFile
    /\ summary = NoSummary
    /\ main_ret = NotReturned

(* main() is not running: the state in which get() is studied on its own. *)
MainIdle ==
    /\ pc = "done"
    /\ linkfile = [status |-> "missing", data |-> <<>>]
    /\ upstream = <<>>
    /\ links_list = <<>>
    /\ i = 0
    /\ out = EmptyMap
    /\ success_count = 0
    /\ fail_count = 0
    /\ id_counter = 0
    /\ version_id = 0
    /\ attempts = 0
    /\ v = "empty"
    /\ out_id = ""
    /\ j = 0
    /\ thumbs_remote = <<>>
    /\ thumbs_local = <<>>
    /\ attempted = <<>>
    /\ files = {}
    /\ lastReq = NoReq
    /\ results = <<>>
    /\ regfile = NoFile
    /\ summary = NoSummary
    /\ main_ret = NotReturned

(* No function is studied on its own. *)
PureIdle ==
    /\ fn = ""
    /\ fn_arg = <<>>
    /\ fn_ret = [done |-> FALSE]

Init == GetInit /\ MainInit(BatchWorlds) /\ PureIdle

Next ==
    \/ Load
    \/ BeginEntry
    \/ ModelApiAttempt
    \/ VersionApiAttempt
    \/ Extract
    \/ ThumbStep
    \/ ReturnRecord
    \/ EndLoop
    \/ Save

Spec == Init /\ [][Next]_vars

InitThumbs == GetInit /\ MainInit(ThumbWorlds) /\ PureIdle

SpecThumbs == InitThumbs /\ [][Next]_vars

InitGet == GetInit /\ MainIdle /\ PureIdle

SpecGet == InitGet /\ [][GetNext]_vars

InitExt ==
    /\ GetInit
    /\ MainIdle
    /\ fn = "download_thumbnail"
    /\ fn_arg \in [has_url : BOOLEAN, bad_url : BOOLEAN, dir_ok : BOOLEAN,
                    urlext : UrlExts, resp : ThumbCallResponses]
    /\ fn_ret = [done |-> FALSE]

SpecExt == InitExt /\ [][CallDownloadThumbnail]_vars

InitLinks ==
    /\ GetInit
    /\ MainIdle
    /\ fn = "load_links"
    /\ fn_arg \in { [status |-> st, data |-> <<>>] : st \in {"ok"} \cup LoadFailures }
    /\ fn_ret = [done |-> FALSE]

InitFields ==
    /\ GetInit
    /\ MainIdle
    /\ fn = "fetch_from_api"
    /\ fn_arg \in VersionFieldCases \cup VersionSizeCases
    /\ fn_ret = [done |-> FALSE]

SpecFields == InitFields /\ [][CallFetchFields]_vars

NextLinks == WriteLinkFile \/ CallLoadLinks

SpecLinks == InitLinks /\ [][NextLinks]_vars

InitPage ==
    /\ GetInit
    /\ MainIdle
    /\ fn = "parse_civitai_page"
    /\ fn_arg = [base_url |-> "https://civitai.com/models/7", page |-> EmptyPage]
    /\ fn_ret = [done |-> FALSE]

NextPage == WritePage \/ CallParsePage

SpecPage == InitPage /\ [][NextPage]_vars


(***************************************************************************)
(* Properties.                                                             *)
(***************************************************************************)
Count(s, P(_)) == Cardinality({ k \in DOMAIN s : P(s[k]) })
Raised(r)   == r.outcome = "raised"
Returned(r) == r.outcome = "returned"
LoopOver    == pc \in {"save", "done"} /\ links_list # <<>>
BetweenEntries == pc \in {"loop", "save"} \/ (pc = "done" /\ links_list # <<>>)

(* C1: main() hands every entry of the batch to fetch_from_api exactly     *)
(* once, in load order; an entry whose resolution raises only adds one to  *)
(* fail_count and the loop goes on with the next entry; once the loop is   *)
(* over, success_count + fail_count is the number of entries.              *)
C1_EveryEntryOnceInOrder ==
    /\ \A k \in DOMAIN results : results[k].idx = k
    /\ Len(results) <= Len(links_list)
    /\ success_count + fail_count = Len(results)
    /\ fail_count = Count(results, Raised)
    /\ pc \in {"loop", "model_api", "version_api", "extract", "thumbs"}
          => Len(results) = i - 1
    /\ LoopOver => /\ Len(results) = Len(links_list)
                   /\ success_count + fail_count = Len(links_list)

C1_Witness ==
    /\ pc = "save"
    /\ Len(links_list) = 2
    /\ Len(results) = 2
    /\ results[1].outcome = "raised"
    /\ results[2].outcome = "returned"
    /\ success_count = 1
    /\ fail_count = 1

(* C2: the registry holds exactly one record per entry that resolved       *)
(* (its size is success_count, so no record was overwritten) and           *)
(* fail_count is the number of entries whose resolution raised; a batch of *)
(* one failing and one succeeding entry ends with one record and a         *)
(* reported failure count of 1.                                            *)
C2_OneRecordPerSuccess ==
    /\ BetweenEntries =>
         /\ Cardinality(DOMAIN out) = success_count
         /\ success_count = Count(results, Returned)
         /\ fail_count = Count(results, Raised)
    /\ (pc = "done" /\ summary.printed) =>
         /\ summary.entries = Count(results, Returned)
         /\ summary.failed = Count(results, Raised)
         /\ (Len(results) = 2 /\ Count(results, Raised) = 1)
               => (Cardinality(DOMAIN out) = 1 /\ summary.failed = 1)

C2_Witness ==
    /\ pc = "done"
    /\ summary.printed
    /\ Len(results) = 2
    /\ results[1].outcome = "returned"
    /\ results[2].outcome = "raised"
    /\ Cardinality(DOMAIN out) = 1
    /\ summary.failed = 1

(* C3: get() issues requests one at a time until the first HTTP 200 or     *)
(* until 3 attempts were made: no request follows a 200, the 200 response  *)
(* is returned at once with no sleep after it, and when every attempt      *)
(* failed the failure is raised after exactly 3 attempts.                  *)
C3_StopsAtFirst200OrThreeAttempts ==
    /\ g_n = Len(g_log)
    /\ g_n <= RETRIES
    /\ \A k \in 1..(Len(g_log) - 1) : ~IsOk(g_log[k].resp)
    /\ (g_log # <<>> /\ IsOk(g_log[Len(g_log)].resp)) =>
         /\ g_pc = "returned"
         /\ g_ret = g_log[Len(g_log)].resp
         /\ g_log[Len(g_log)].pauses = <<>>
    /\ g_pc = "returned" => (g_log # <<>> /\ IsOk(g_log[Len(g_log)].resp))
    /\ g_pc = "loop" => g_n < RETRIES
    /\ g_pc \in {"after", "raised"} =>
         /\ g_n = RETRIES
         /\ \A k \in DOMAIN g_log : ~IsOk(g_log[k].resp)
    /\ g_pc = "raised" => (g_err # "" /\ g_ret = NoResp)

C3_Witness ==
    /\ g_pc = "raised"
    /\ g_n = 3
    /\ \A k \in 1..3 : g_log[k].resp = Http(500)

RECURSIVE CountPauses(_, _)
CountPauses(log, kind) ==
    IF log = <<>> THEN 0
    ELSE Cardinality({ k \in DOMAIN Head(log).pauses : Head(log).pauses[k] = kind })
         + CountPauses(Tail(log), kind)

Answers(seq) ==
    /\ Len(g_log) = Len(seq)
    /\ \A k \in DOMAIN seq : g_log[k].resp = seq[k]

(* C4: when the server answers 429 once and then 200, get() returns the    *)
(* 200 response and exactly one 30-second cooldown happened in the call.   *)
C4_One429ThenOk ==
    Answers(<<Http(429), Http(200)>>) =>
        /\ g_pc = "returned"
        /\ g_ret = Http(200)
        /\ CountPauses(g_log, "cooldown") = 1

C4_Witness ==
    /\ Answers(<<Http(429), Http(200)>>)
    /\ g_pc = "returned"
    /\ CountPauses(g_log, "cooldown") = 1

Is429(resp) == resp.exc = "" /\ resp.status = 429

(* C5 as stated: after a 429 only the cooldown, after any other failed     *)
(* attempt only the short backoff, never both after one attempt.           *)
C5_Original ==
    \A k \in DOMAIN g_log :
        /\ Is429(g_log[k].resp) => g_log[k].pauses = <<"cooldown">>
        /\ (~IsOk(g_log[k].resp) /\ ~Is429(g_log[k].resp))
              => g_log[k].pauses = <<"backoff">>
        /\ ~({"cooldown", "backoff"} \subseteq Range(g_log[k].pauses))

(* C5 as amended: a 429 attempt is followed by the 30s cooldown and then   *)
(* by one short randomized backoff; every other failed attempt is followed *)
(* by exactly one backoff and no cooldown; a 200 by no sleep.  The         *)
(* cooldown follows a 429 only.                                            *)
C5_PausesByFailureKind ==
    \A k \in DOMAIN g_log :
        /\ Is429(g_log[k].resp) => g_log[k].pauses = <<"cooldown", "backoff">>
        /\ (~IsOk(g_log[k].resp) /\ ~Is429(g_log[k].resp))
              => g_log[k].pauses = <<"backoff">>
        /\ IsOk(g_log[k].resp) => g_log[k].pauses = <<>>
        /\ "cooldown" \in Range(g_log[k].pauses) => Is429(g_log[k].resp)

C5_Witness ==
    /\ Len(g_log) = 3
    /\ g_log[1].resp = Http(429)
    /\ g_log[1].pauses = <<"cooldown", "backoff">>
    /\ g_log[2].resp = Exc("Timeout")
    /\ g_log[2].pauses = <<"backoff">>
    /\ g_log[3].resp = Http(500)

(* The error an attempt ends with: the exception requests.get raised, or,  *)
(* for a non-200 status, the RuntimeError get() has for it.                *)
ErrorOf(resp) == IF resp.exc # "" THEN resp.exc ELSE "RuntimeError"

(* C6: when all 3 attempts of get() failed, the error raised is the error  *)
(* of the last attempt, and nothing is returned.                           *)
C6_RaisesLastError ==
    g_pc = "raised" =>
        /\ g_err = ErrorOf(g_log[RETRIES].resp)
        /\ g_ret = NoResp

(* C7: every request of the API resolver and of the thumbnail downloader   *)
(* goes through get(), so each failed attempt is followed by the sleeps    *)
(* get() takes (30s cooldown after a 429, randomized backoff).             *)
C7_RequestsUseFetchLayer ==
    (lastReq.site # "none" /\ ~IsOk(lastReq.resp))
        => lastReq.pauses = GetPausesAfter(lastReq.resp)

(* C8: a resolved entry allocates exactly one identifier, so in a run      *)
(* without failures the n-th record is stored under the n-th token A0001,  *)
(* A0002, ...                                                              *)
C8_OneIdPerSuccess ==
    (BetweenEntries /\ fail_count = 0) =>
        /\ id_counter = success_count
        /\ DOMAIN out = { FormatId(n) : n \in 1..success_count }

ThumbExts == {".jpg", ".jpeg", ".png", ".webp", ".mp4", ".webm", ".dat"}

(* C9: every thumbnail file of a stored record is named <key>_T<n>.<ext>,  *)
(* <key> being the key the record is stored under.                         *)
C9_ThumbFilesCarryRecordKey ==
    \A k \in DOMAIN out :
        \A path \in Range(out[k].thumbnails_local) :
            \E n \in 1..THUMB_CAP, e \in ThumbExts :
                path = "thumbnails/" \o k \o "_T" \o ToString(n) \o e

(* C10: only the first 5 images of a version are attempted, the image at   *)
(* 1-based position p under the identifier <out_id>_T<p>, <out_id> being   *)
(* the identifier fetch_from_api allocated; thumbnails_local is never      *)
(* longer than thumbnails_all, which is never longer than 5.               *)
C10_FiveThumbsAtMost ==
    /\ \A k \in DOMAIN attempted :
         /\ attempted[k].pos \in 1..THUMB_CAP
         /\ attempted[k].pos <= upstream[i]
         /\ attempted[k].id = out_id \o "_T" \o ToString(attempted[k].pos)
         /\ attempted[k].url \in { ImgUrl(i, attempted[k].pos),
                                   "http://[" \o ImgUrl(i, attempted[k].pos) }
         /\ k > 1 => attempted[k - 1].pos < attempted[k].pos
    /\ Len(thumbs_local) <= Len(thumbs_remote)
    /\ Len(thumbs_remote) <= THUMB_CAP
    /\ \A k \in DOMAIN out :
         /\ Len(out[k].thumbnails_local) <= Len(out[k].thumbnails_all)
         /\ Len(out[k].thumbnails_all) <= THUMB_CAP

C10_Witness ==
    /\ pc = "thumbs"
    /\ upstream[i] = 6
    /\ j = 6
    /\ Len(attempted) = 4
    /\ attempted[4].pos = 5
    /\ attempted[4].id = out_id \o "_T5"
    /\ Len(thumbs_remote) = 4
    /\ Len(thumbs_local) = 3

(* C11: a download_thumbnail call that fails (a status other than 200, a   *)
(* timeout, or any exception: of the request, while the body is written,   *)
(* or of the lines before the request) yields the remote URL with an empty *)
(* local path and does not make fetch_from_api raise: the thumbnail loop   *)
(* goes on, and the record that is returned and counted as a success lists *)
(* the URL of every attempted download, the failed ones included, in       *)
(* thumbnails_all.                                                         *)
ThumbCallFailed(req, call) ==
    call.raised # "" \/ req.resp.exc # "" \/ req.resp.status # 200 \/ call.local = ""

UrlsOf(calls) == [k \in DOMAIN calls |-> calls[k].url]

C11_FailedThumbStep ==
    (pc = "thumbs" /\ Len(attempted') = Len(attempted) + 1
       /\ ThumbCallFailed(lastReq', attempted'[Len(attempted')]))
    => /\ attempted'[Len(attempted')].local = ""
       /\ thumbs_remote' = Append(thumbs_remote, attempted'[Len(attempted')].url)
       /\ thumbs_local' = thumbs_local
       /\ pc' = "thumbs"
       /\ results' = results
       /\ fail_count' = fail_count

C11_RecordKeepsUrls ==
    (pc = "thumbs" /\ success_count' = success_count + 1)
    => \E id \in DOMAIN out' \ DOMAIN out :
         /\ out'[id].thumbnails_all = UrlsOf(attempted)
         /\ Len(results') = Len(results) + 1
         /\ results'[Len(results')].outcome = "returned"

C11_FailedThumbKeepsRecord ==
    /\ [](thumbs_remote = UrlsOf(attempted))
    /\ [][C11_FailedThumbStep /\ C11_RecordKeepsUrls]_vars

(* What holds of the failures download_thumbnail handles in its own try    *)
(* block (lines 126-156): the URL is kept.  A call that raises before it   *)
(* adds nothing to either list, and in both cases the loop goes on.        *)
C11_HandledFailureStep ==
    (pc = "thumbs" /\ Len(attempted') = Len(attempted) + 1)
    => LET call == attempted'[Len(attempted')] IN
       /\ (call.raised = "" /\ ThumbCallFailed(lastReq', call))
          => /\ call.local = ""
             /\ thumbs_remote' = Append(thumbs_remote, call.url)
             /\ thumbs_local' = thumbs_local
       /\ call.raised # ""
          => /\ thumbs_remote' = thumbs_remote
             /\ thumbs_local' = thumbs_local
             /\ files' = files
             /\ lastReq' = lastReq
       /\ pc' = "thumbs"
       /\ results' = results
       /\ fail_count' = fail_count

C11_HandledFailures == [][C11_HandledFailureStep]_vars

C11_RaisedCallLosesUrl ==
    \E id \in DOMAIN out :
      /\ success_count = 1
      /\ out[id].thumbnails_all = <<>>
      /\ out[id].thumbnail = ""

(* C12: in every stored record with a local thumbnail, thumbnail and       *)
(* thumbnail_local describe the same image of the version: thumbnail is    *)
(* the URL of the image at some position p and thumbnail_local is the file *)
(* saved for position p, the first position whose download succeeded.      *)
SameAsset(url, path) ==
    \E e \in 1..Len(links_list), p \in 1..THUMB_CAP, n \in 1..id_counter, x \in ThumbExts :
        /\ url = ImgUrl(e, p)
        /\ path = ThumbPath(ThumbId(FormatId(n), p), x)

C12_PrimaryIsOneAsset ==
    \A id \in DOMAIN out :
        out[id].thumbnail_local # ""
        => /\ out[id].thumbnail_local = out[id].thumbnails_local[1]
           /\ SameAsset(out[id].thumbnail, out[id].thumbnail_local)

(* C13: when the response is an image content type, the file is saved      *)
(* with the (lower-cased) extension of the URL if that is .jpg, .jpeg,     *)
(* .png or .webp, and with .jpg if the URL has no extension or another one.*)
ExtCallSaved ==
    /\ fn = "download_thumbnail"
    /\ fn_ret.done
    /\ fn_arg.has_url
    /\ fn_ret.val.raised = ""
    /\ fn_arg.resp.exc = ""
    /\ fn_arg.resp.status = 200

SavedAs(ext) ==
    /\ fn_ret.val.file = "thumbnails/" \o ThumbCallId \o ext
    /\ files = {"thumbnails/" \o ThumbCallId \o ext}

C13_ImageKeepsKnownExt ==
    (ExtCallSaved /\ Lower(fn_arg.resp.ctype) \in ImageTypes)
    => IF Lower(fn_arg.urlext) \in {".jpg", ".jpeg", ".png", ".webp"}
       THEN SavedAs(Lower(fn_arg.urlext))
       ELSE SavedAs(".jpg")

C13_Witness ==
    /\ ExtCallSaved
    /\ fn_arg.urlext = ".png"
    /\ fn_arg.resp.ctype = "image/jpeg"
    /\ fn_ret.val.local = "thumbnails/A0001_T1.png"

(* C14 as stated: the extension is the URL extension when that is a known  *)
(* image extension, whatever the content type; otherwise .jpg for an image *)
(* content type and .mp4 for a video content type; otherwise .dat.         *)
C14_Original ==
    ExtCallSaved
    => SavedAs(IF Lower(fn_arg.urlext) \in {".jpg", ".jpeg", ".png", ".webp"}
               THEN Lower(fn_arg.urlext)
               ELSE IF Lower(fn_arg.resp.ctype) \in ImageTypes THEN ".jpg"
               ELSE IF Lower(fn_arg.resp.ctype) \in VideoTypes THEN ".mp4"
               ELSE ".dat")

(* C14: the content type is looked at first.  Image content type: the URL  *)
(* extension if it is .jpg, .jpeg, .png or .webp, else .jpg.  Video        *)
(* content type: the URL extension if it is .mp4 or .webm, else .mp4.  Any *)
(* other content type: the URL extension if there is one, else .dat.       *)
C14_ExtByContentClass ==
    ExtCallSaved
    => LET e == Lower(fn_arg.urlext)
           c == Lower(fn_arg.resp.ctype)
       IN
       /\ (c \in ImageTypes /\ e \in {".jpg", ".jpeg", ".png", ".webp"}) => SavedAs(e)
       /\ (c \in ImageTypes /\ e \notin {".jpg", ".jpeg", ".png", ".webp"}) => SavedAs(".jpg")
       /\ (c \in VideoTypes /\ e \in {".mp4", ".webm"}) => SavedAs(e)
       /\ (c \in VideoTypes /\ e \notin {".mp4", ".webm"}) => SavedAs(".mp4")
       /\ (c \notin ImageTypes \cup VideoTypes /\ e # "") => SavedAs(e)
       /\ (c \notin ImageTypes \cup VideoTypes /\ e = "") => SavedAs(".dat")

C14_Witness ==
    /\ ExtCallSaved
    /\ fn_arg.urlext = ".png"
    /\ fn_arg.resp.ctype = "video/mp4"
    /\ fn_ret.val.local = "thumbnails/A0001_T1.mp4"

(* C15: for a link file in which every value is a string or a list and     *)
(* every non-blank string is a link, load_links returns as many entries as *)
(* there are non-blank strings in all the values together, each element of *)
(* a list and each comma-separated part counting for one, and no entry has *)
(* an empty url.                                                           *)
RECURSIVE Sum(_)
Sum(ns) == IF ns = <<>> THEN 0 ELSE Head(ns) + Sum(Tail(ns))

LinksCalled == fn = "load_links" /\ fn_ret.done /\ fn_arg.status = "ok"

IsLink(str) == str.text # "" /\ str.http /\ ~str.hash

NonBlankParts(value) == Cardinality({ k \in DOMAIN value.parts : value.parts[k].text # "" })

ValidMapping(data) ==
    \A k \in DOMAIN data :
        /\ data[k].value.type \in {"str", "list"}
        /\ \A q \in DOMAIN data[k].value.parts :
             data[k].value.parts[q].text = "" \/ IsLink(data[k].value.parts[q])

C15_OneEntryPerUrl ==
    (LinksCalled /\ ValidMapping(fn_arg.data))
    => /\ fn_ret.val.raised = ""
       /\ Len(fn_ret.val.pairs)
            = Sum([k \in DOMAIN fn_arg.data |-> NonBlankParts(fn_arg.data[k].value)])
       /\ \A k \in DOMAIN fn_ret.val.pairs :
            /\ fn_ret.val.pairs[k].url.text # ""
            /\ ~fn_ret.val.pairs[k].url.pad

C15_Witness ==
    /\ LinksCalled
    /\ ValidMapping(fn_arg.data)
    /\ Len(fn_arg.data) = 2
    /\ fn_arg.data[1].value = ListValue(<<UrlNoModel, Padded(UrlVersion)>>)
    /\ fn_arg.data[2].value = StrValue(<<Padded(Blank)>>)
    /\ Len(fn_ret.val.pairs) = 2

(* C16: the entries of a blank key (empty or whitespace only) are one per  *)
(* string the value emits, each named after the last path segment of its   *)
(* own url, or "unnamed" when the url has none; no entry is named by a     *)
(* blank key.                                                              *)
SegName(url) == IF url.seg # "" THEN url.seg ELSE "unnamed"

Emits(value) ==
    /\ value.type \in {"str", "list"}
    /\ \E k \in DOMAIN value.parts : IsLink(value.parts[k])

BlankKeyUrls(data) ==
    Sum([k \in DOMAIN data |->
           IF data[k].key \in {"", " "} /\ Emits(data[k].value)
           THEN NonBlankParts(data[k].value) ELSE 0])

C16_BlankKeyNamedByUrl ==
    LinksCalled
    => /\ \A k \in DOMAIN fn_ret.val.pairs :
            /\ fn_ret.val.pairs[k].name \notin {"", " "}
            /\ fn_ret.val.pairs[k].name # "m1"
               => fn_ret.val.pairs[k].name = SegName(fn_ret.val.pairs[k].url)
       /\ Cardinality({ k \in DOMAIN fn_ret.val.pairs : fn_ret.val.pairs[k].name # "m1" })
            = BlankKeyUrls(fn_arg.data)

C16_Witness ==
    /\ LinksCalled
    /\ Len(fn_arg.data) = 2
    /\ fn_arg.data[1] = [key |-> " ", value |-> StrValue(<<Padded(UrlVersion), UrlNoModel>>)]
    /\ fn_arg.data[2].key = "m1"
    /\ Len(fn_ret.val.pairs) = 3
    /\ fn_ret.val.pairs[1] = [name |-> "7", url |-> UrlVersion]
    /\ fn_ret.val.pairs[2] = [name |-> "unnamed", url |-> UrlNoModel]
    /\ fn_ret.val.pairs[3].name = "m1"

(* C17: when load_links raises (file missing, invalid JSON, top-level      *)
(* value that is not an object), main() returns before it processes        *)
(* anything: no request, no identifier, no thumbnail file, no registry     *)
(* file.  A value that is neither a string nor a list does not make the    *)
(* load fail: the run goes on with the entries of the other keys.          *)
WellFormed(pair) == pair.value.type \in {"str", "list"}

C17_LoadFailureAborts ==
    /\ linkfile.status \in LoadFailures
       => /\ pc \in {"load", "done"}
          /\ links_list = <<>>
          /\ lastReq = NoReq
          /\ attempted = <<>>
          /\ results = <<>>
          /\ id_counter = 0
          /\ files = {}
          /\ out = EmptyMap
          /\ regfile = NoFile
    /\ (linkfile.status = "ok" /\ pc # "load"
          /\ \E k \in DOMAIN linkfile.data : ~WellFormed(linkfile.data[k]))
       => /\ links_list = LoadLinks(SelectSeq(linkfile.data, WellFormed))
          /\ links_list # <<>>

C17_Witness ==
    /\ linkfile.status = "not_object"
    /\ pc = "done"
    /\ regfile = NoFile

C17_MalformedValueSkipped ==
    /\ linkfile.status = "ok"
    /\ Len(linkfile.data) = 2
    /\ ~WellFormed(linkfile.data[1])
    /\ pc = "done"
    /\ success_count = 1

(* C18 as stated: sizeKB = 2048 gives "2 MB", sizeKB = 3145728 gives       *)
(* "3 GB" and sizeKB = 500 gives "500 KB".                                 *)
FieldsReturned == fn = "fetch_from_api" /\ fn_ret.done /\ fn_ret.val.raised = ""

SizeCase(n) == FieldsReturned /\ fn_arg.sizeKB = JNum(n)

(* h/100 is within half a hundredth of num/den. *)
NearestHundredth(h, num, den) ==
    /\ 2 * h * den <= 200 * num + den
    /\ 200 * num <= 2 * h * den + den

C18_Original ==
    /\ SizeCase(2048) => fn_ret.val.rec.size = "2 MB"
    /\ SizeCase(3145728) => fn_ret.val.rec.size = "3 GB"
    /\ SizeCase(500) => fn_ret.val.rec.size = "500 KB"

(* C18: the size is given in the largest unit (KB, MB = 1024 KB,           *)
(* GB = 1024 MB) in which it is at least 1; in KB it is printed as a whole *)
(* number, in MB and GB as a decimal number rounded to two places that     *)
(* always shows at least one decimal: 2048 gives "2.0 MB", 3145728 gives   *)
(* "3.0 GB", 1100 gives "1.07 MB" and 500 gives "500 KB".                  *)
C18_SizeInLargestUnit ==
    /\ SizeCase(2048) => fn_ret.val.rec.size = "2.0 MB"
    /\ SizeCase(3145728) => fn_ret.val.rec.size = "3.0 GB"
    /\ SizeCase(1100) => fn_ret.val.rec.size = "1.07 MB"
    /\ SizeCase(500) => fn_ret.val.rec.size = "500 KB"
    /\ \A n \in SizesKB :
         SizeCase(n) =>
           IF n = 0 THEN fn_ret.val.rec.size = ""
           ELSE IF n < 1024 THEN fn_ret.val.rec.size = ToString(n) \o " KB"
           ELSE IF n < 1024 * 1024
           THEN \E h \in 100..102400 :
                  /\ NearestHundredth(h, n, 1024)
                  /\ fn_ret.val.rec.size = FloatText(h) \o " MB"
           ELSE \E h \in 100..1000 :
                  /\ NearestHundredth(h, n, 1024 * 1024)
                  /\ fn_ret.val.rec.size = FloatText(h) \o " GB"

C18_Witness ==
    /\ SizeCase(3145728)
    /\ fn_ret.val.rec.size = "3.0 GB"

(* C19: every record fetch_from_api returns holds, in each field read off  *)
(* the version JSON, a string or a collection and never null, whether the  *)
(* JSON carries the field, lacks it, or carries it as null.                *)
HoldsValue(field) == field.t \in {"str", "list", "obj"}

C19_NoNullField ==
    FieldsReturned
    => /\ HoldsValue(fn_ret.val.rec.base_model)
       /\ HoldsValue(fn_ret.val.rec.base_model_type)
       /\ HoldsValue(fn_ret.val.rec.metadata.hashes)
       /\ HoldsValue(fn_ret.val.rec.metadata.description)

(* C20 as stated: every run whose load step succeeds ends in Done with the *)
(* registry serialized once and the summary printed.                       *)
C20_Original ==
    (pc = "done" /\ linkfile.status = "ok")
    => /\ regfile.dumps = 1
       /\ summary.printed

(* C20: a run whose load step yields at least one entry goes               *)
(* Loading -> Processing(i) -> Saving -> Done: json.dump is called at most *)
(* once, after the last entry was processed and never before or during     *)
(* processing (once, unless the output file could not be opened, which     *)
(* leaves no file), and the run then reaches Done with its summary.  A run *)
(* whose load step fails or yields no entry goes from Loading to Done      *)
(* without serializing and without a summary.                              *)
Phase(p) ==
    CASE p = "load" -> "Loading"
      [] p = "save" -> "Saving"
      [] p = "done" -> "Done"
      [] OTHER      -> "Processing"

C20_PhaseStep ==
    Phase(pc') # Phase(pc)
    => \/ /\ Phase(pc) = "Loading" /\ Phase(pc') = "Processing"
          /\ links_list' # <<>>
       \/ /\ Phase(pc) = "Loading" /\ Phase(pc') = "Done"
          /\ LoadLinksFile(linkfile).pairs = <<>>
       \/ /\ Phase(pc) = "Processing" /\ Phase(pc') = "Saving"
          /\ Len(results) = Len(links_list)
       \/ /\ Phase(pc) = "Saving" /\ Phase(pc') = "Done"
          /\ \/ (regfile'.dumps = regfile.dumps + 1 /\ regfile'.written)
             \/ regfile' = regfile

C20_SavedOnceAtTheEnd ==
    /\ regfile.dumps <= 1
    /\ Phase(pc) \in {"Loading", "Processing", "Saving"}
       => regfile.dumps = 0 /\ ~regfile.written /\ ~summary.printed
    /\ (pc = "done" /\ links_list # <<>>)
       => /\ (regfile.dumps = 1 /\ regfile.written) \/ regfile = NoFile
          /\ regfile.data \in {out, EmptyMap}
          /\ summary.printed
          /\ Len(results) = Len(links_list)
    /\ (pc = "done" /\ links_list = <<>>)
       => regfile.dumps = 0 /\ ~summary.printed

(* The steps main() has left at most: every step of the run lowers it, so *)
(* the run is finite, and it can stop in Done only.                        *)
EntrySteps == 2 * (API_TRIES + THUMB_CAP)

StepsLeftInEntry ==
    CASE pc = "model_api"   -> 11 + (API_TRIES - attempts)
      [] pc = "version_api" -> 8 + (API_TRIES - attempts)
      [] pc = "extract"     -> 8
      [] pc = "thumbs"      -> 7 - j
      [] OTHER              -> 0

StepsLeft ==
    CASE pc = "done" -> 0
      [] pc = "save" -> 1
      [] pc = "load" -> 3 + EntrySteps * Len(LoadLinksFile(linkfile).pairs)
      [] pc = "loop" -> 2 + EntrySteps * (Len(links_list) + 1 - i)
      [] OTHER       -> 2 + EntrySteps * (Len(links_list) - i) + StepsLeftInEntry

C20_RunOrder ==
    /\ []C20_SavedOnceAtTheEnd
    /\ [][C20_PhaseStep /\ StepsLeft' < StepsLeft]_vars
    /\ [](pc = "done" \/ ENABLED Next)

C20_Witness ==
    /\ pc = "done"
    /\ Len(links_list) = 2
    /\ Len(results) = 2
    /\ regfile.dumps = 1
    /\ regfile.written
    /\ regfile.data = out
    /\ out # EmptyMap
    /\ summary.printed

C20_OutputNotOpened ==
    /\ pc = "done"
    /\ Len(results) = 2
    /\ regfile = NoFile
    /\ summary.printed

(* C21: when the save fails (the output file cannot be opened, or         *)
(* json.dump raises while writing), the run is not rolled back: the step   *)
(* leaves the success and failure counters, the records in memory and the  *)
(* thumbnail files as they were, and the run ends with the summary of      *)
(* those counts.                                                           *)
DumpFailed == pc = "done" /\ links_list # <<>> /\ regfile.data # out

C21_SaveStep ==
    pc = "save"
    => /\ out' = out
       /\ success_count' = success_count
       /\ fail_count' = fail_count
       /\ files' = files
       /\ pc' = "done"
       /\ summary' = [printed |-> TRUE, success |-> success_count,
                      failed |-> fail_count, entries |-> Cardinality(DOMAIN out)]

C21_FailedDumpSummary ==
    DumpFailed
    => /\ summary.printed
       /\ summary.success = success_count
       /\ summary.failed = fail_count
       /\ summary.entries = Cardinality(DOMAIN out)
       /\ summary.success + summary.failed = Len(links_list)

C21_FailedDumpKeepsRun == []C21_FailedDumpSummary /\ [][C21_SaveStep]_vars

C21_Witness ==
    /\ DumpFailed
    /\ regfile.written
    /\ regfile.dumps = 1
    /\ summary.printed
    /\ summary.success = 1
    /\ summary.failed = 1
    /\ files # {}
    /\ out # EmptyMap

C21_OutputNotOpened ==
    /\ DumpFailed
    /\ regfile = NoFile
    /\ summary.success = 1
    /\ files # {}

(* C22: when main() has printed its summary, the value it returned to its  *)
(* caller carries the counts of the summary (success, failure, total       *)
(* entries).                                                               *)
C22_CountsReturned ==
    (pc = "done" /\ summary.printed)
    => /\ main_ret.returned
       /\ main_ret.value.t = "counts"
       /\ main_ret.value.success = summary.success
       /\ main_ret.value.failed = summary.failed
       /\ main_ret.value.entries = summary.entries

(* C23: an entry whose URL holds no /models/<digits> fails in the first    *)
(* step of its resolution: no request was issued and no identifier         *)
(* allocated for it, and main() counts one failure and goes to the next    *)
(* entry.  Requests and identifiers belong to entries with a model id.     *)
Resolving == pc \in {"model_api", "version_api", "extract", "thumbs"}

NoModelId(url) == url.model = 0

C23_NoModelIdStep ==
    (pc = "loop" /\ ~LoopDone(i, Len(links_list)) /\ NoModelId(links_list[i].url))
    => /\ pc' = "loop"
       /\ i' = i + 1
       /\ fail_count' = fail_count + 1
       /\ results' = Append(results, [idx |-> i, outcome |-> "raised"])
       /\ lastReq = NoReq
       /\ lastReq' = NoReq
       /\ id_counter' = id_counter
       /\ success_count' = success_count
       /\ out' = out
       /\ files' = files

C23_RequestsNeedModelId ==
    /\ Resolving => ~NoModelId(links_list[i].url)
    /\ (lastReq.site # "none" \/ out_id # "") => Resolving

C23_NoModelIdFailsFirst == []C23_RequestsNeedModelId /\ [][C23_NoModelIdStep]_vars

C23_Witness ==
    /\ pc = "loop"
    /\ Len(links_list) = 2
    /\ NoModelId(links_list[1].url)
    /\ results = <<[idx |-> 1, outcome |-> "raised"]>>
    /\ fail_count = 1
    /\ id_counter = 0
    /\ lastReq = NoReq

(* C24: for a URL with an explicit modelVersionId the model endpoint is    *)
(* never requested and the version requested is that id; for a URL without *)
(* one the model endpoint is requested and the version requested is the    *)
(* first of the version list it answered; an answer without versions never *)
(* leads to a request of the version endpoint, and the entry fails when    *)
(* the tries are used up.                                                  *)
ExplicitVersion(url) == url.ver # 0

SelectedVersion(url) ==
    IF ExplicitVersion(url) THEN url.ver ELSE ModelVersions("versions")[1]

C24_VersionRequested ==
    /\ pc = "model_api" => ~ExplicitVersion(links_list[i].url)
    /\ lastReq.site = "model"
       => /\ ~ExplicitVersion(links_list[i].url)
          /\ lastReq.target = ModelApi(links_list[i].url.model)
    /\ pc \in {"version_api", "extract", "thumbs"}
       => version_id = SelectedVersion(links_list[i].url)
    /\ lastReq.site = "version"
       => lastReq.target = VersionApi(SelectedVersion(links_list[i].url))

C24_ModelStep ==
    pc = "model_api"
    => \/ /\ pc' = "version_api"
          /\ lastReq'.site = "model"
          /\ IsOk(lastReq'.resp)
          /\ lastReq'.versions # <<>>
          /\ version_id' = lastReq'.versions[1]
       \/ /\ pc' = "model_api"
          /\ attempts' = attempts + 1
          /\ attempts' < API_TRIES
          /\ ~IsOk(lastReq'.resp) \/ lastReq'.versions = <<>>
          /\ version_id' = 0
       \/ /\ pc' = "loop"
          /\ attempts + 1 = API_TRIES
          /\ fail_count' = fail_count + 1
          /\ i' = i + 1

C24_VersionSelection == []C24_VersionRequested /\ [][C24_ModelStep]_vars

C24_Witness ==
    /\ Len(links_list) = 2
    /\ ExplicitVersion(links_list[1].url)
    /\ results = <<[idx |-> 1, outcome |-> "returned"]>>
    /\ ~ExplicitVersion(links_list[2].url)
    /\ pc = "extract"
    /\ version_id = LatestVersionId
    /\ lastReq.target = VersionApi(LatestVersionId)

C24_EmptyListFails ==
    /\ Len(links_list) = 1
    /\ ~ExplicitVersion(links_list[1].url)
    /\ pc = "model_api"
    /\ attempts = 2
    /\ IsOk(lastReq.resp)
    /\ lastReq.versions = <<>>

(* C25: a failed entry changes nothing but the failure counter.  When the  *)
(* resolution of an entry raises, at whatever point, the registry map and  *)
(* the success counter are left alone, the failure counter goes up by one, *)
(* and no identifier was allocated for the entry: neither by the step that *)
(* raises nor earlier in the resolution (out_id is still unassigned).      *)
EntryRaises ==
    /\ Len(results') = Len(results) + 1
    /\ Raised(results'[Len(results')])

C25_FailedEntryStep ==
    EntryRaises
    => /\ out' = out
       /\ success_count' = success_count
       /\ fail_count' = fail_count + 1
       /\ id_counter' = id_counter
       /\ out_id = ""

C25_FailureConsumesNoId == [][C25_FailedEntryStep]_vars

(* C26: every entry load_links emits has a url that contains "http" and    *)
(* does not start with "#", whatever else the value it comes from holds.   *)
C26_OnlyLinksEmitted ==
    (LinksCalled /\ fn_ret.val.raised = "")
    => \A k \in DOMAIN fn_ret.val.pairs : IsLink(fn_ret.val.pairs[k].url)

(* C27 as stated: whenever the og:image meta tag has non-empty content,    *)
(* the thumbnail is that content, made absolute and with &amp; unescaped.  *)
PageParsed == fn = "parse_civitai_page" /\ fn_ret.done /\ fn_ret.val.raised = ""

OgThumbnail == StripText(Unescape(JoinAbs(fn_arg.base_url, StripText(fn_arg.page.og_image.s))))

C27_Original ==
    (PageParsed /\ Truthy(fn_arg.page.og_image))
    => fn_ret.val.thumbnail_url = OgThumbnail

(* C27: when the og:image meta tag has non-empty content that, made        *)
(* absolute, ends in .jpg, .jpeg, .png or .webp (in any case), the         *)
(* thumbnail is that content, made absolute and with &amp; unescaped, and  *)
(* no other source replaces it.  When the content ends otherwise, the      *)
(* image of the first media container replaces it if there is one with a   *)
(* src; the video poster and the structured-data image never replace a     *)
(* non-empty og:image.                                                     *)
LooksLikeImage(url) ==
    url \in { OgJpeg, OgRelative }

C27_OgImageIfImageFile ==
    (PageParsed /\ Truthy(fn_arg.page.og_image))
    => IF LooksLikeImage(fn_arg.page.og_image.s) \/ ~Truthy(fn_arg.page.media_img)
       THEN /\ fn_ret.val.thumbnail_url = OgThumbnail
            /\ fn_ret.val.video_url = ""
       ELSE /\ fn_ret.val.thumbnail_url = "https://civitai.com/media/first.jpeg"
            /\ fn_ret.val.video_url = ""

C27_Witness ==
    /\ PageParsed
    /\ fn_arg.page.og_image = JStr(OgRelative)
    /\ Truthy(fn_arg.page.media_img)
    /\ fn_arg.page.ld_image = JStr("https://image.civitai.com/ld/cover.png")
    /\ fn_ret.val.thumbnail_url = "https://civitai.com/og/card.PNG"

C27_MediaImageReplacesOg ==
    /\ PageParsed
    /\ fn_arg.page.og_image = JStr(OgQuery)
    /\ fn_arg.page.media_img = JStr(MediaImg)
    /\ fn_ret.val.thumbnail_url = "https://civitai.com/media/first.jpeg"

(* C28: when the version comes from the active version button, it is the   *)
(* last whitespace-separated token of the button text, unless the text has *)
(* 3 tokens or fewer: then it is the full text.                            *)
VersionFromButton ==
    /\ PageParsed
    /\ ~Truthy(fn_arg.page.mv_name)
    /\ Truthy(fn_arg.page.button)

C28_LastTokenOfLongText ==
    VersionFromButton
    => LET tokens == Words(CollapseSpaces(fn_arg.page.button.s)) IN
       fn_ret.val.version = IF Len(tokens) <= 3
                            THEN CollapseSpaces(fn_arg.page.button.s)
                            ELSE tokens[Len(tokens)]

(* C29: published_on is the first non-empty of the date portion of the     *)
(* structured-data datePublished and the date of the tooltip: with         *)
(* datePublished absent or empty and a date tooltip in the page, it is the *)
(* tooltip's date.                                                         *)
C29_FirstNonEmptyDate ==
    PageParsed
    => fn_ret.val.published_on =
         IF Truthy(fn_arg.page.ld_datePublished)
         THEN DatePortion(fn_arg.page.ld_datePublished.s)
         ELSE IF Truthy(fn_arg.page.abbr_title)
         THEN DatePortion(fn_arg.page.abbr_title.s)
         ELSE ""

(* C30: an embedded-JSON description field is a candidate exactly when it  *)
(* is a string of at least 50 characters; the description is the first     *)
(* candidate that contains angle brackets, else the first candidate.       *)
AtLeast50(field) == field.t = "str" /\ Len(StripText(field.s)) >= 50

FieldHtmlLike(field) == HtmlLike(StripText(field.s))

C30_CandidatesOf50 ==
    PageParsed
    => LET accepted == SelectSeq(DescriptionFields(fn_arg.page), AtLeast50)
           markup   == SelectSeq(accepted, FieldHtmlLike)
       IN accepted # <<>>
          => fn_ret.val.description_html =
               StripText(IF markup # <<>> THEN markup[1].s ELSE accepted[1].s)
====
